---- MODULE Spec2Model ----
(***************************************************************************)
(* A model of movie_bot.py: the cursor file (last_update_id.txt), the      *)
(* SQLite catalog (table movies), the canonicalizer normalize_movie_name,  *)
(* the OMDb resolver and the ingestion job fetch_movies_from_channel.      *)
(*                                                                         *)
(* Text is modelled as a sequence of characters, each a string, so that    *)
(* the regular expressions of normalize_movie_name act on characters.      *)
(*                                                                         *)
(* Spec is the job, called again and again, with crashes, channel errors,  *)
(* lookups that raise and storage faults, on every kind of update;         *)
(* CatalogSpec, MessageSpec and CaptionlessSpec are the same job on        *)
(* channels of fewer kinds (files of colliding keys, messages without a    *)
(* file, files without captions), the last without channel errors;         *)
(* FaultSpec and DropSpec add the record of a fault and of what a crash    *)
(* took; CleanSpec is the job without crashes, channel errors and storage  *)
(* faults; FairSpec is the job that runs on once it is called. NormSpec    *)
(* applies the canonicalizer to captions, StoreSpec interleaves one        *)
(* insert_movies call with one get_all_movies call, and MatchSpec makes    *)
(* one best_match call, which the source does not hold and which follows   *)
(* the specification. The caller of the job follows the specification too  *)
(* (Scheduled): main() names handlers the source does not hold and ends    *)
(* before it schedules the job.                                            *)
(***************************************************************************)
EXTENDS Integers, Sequences, FiniteSets, TLC

VARIABLES
    cursorFile,       \* last_update_id.txt: [exists, text]
    catalog,          \* table movies: the rows <<normalized_name, details, file_id>>
    posted,           \* the channel: every update posted so far, in id order
    nextId,           \* the channel: the update_id of the next update
    confirmed,        \* the channel: updates below this id are confirmed (forgotten)
    pc,               \* where the process and fetch_movies_from_channel stand
    last_update_id,   \* local of the cycle: {} is None, {n} is the integer n
    updates,          \* local of the cycle: the list get_updates returned
    idx,              \* local of the cycle: the position of the for loop in updates
    movies_to_insert, \* local of the cycle: the staged entries
    logged,           \* what the running (or last) cycle wrote with logging.error/warning
    insertCalled,     \* history: the running (or last) cycle called insert_movies
    faultAt,          \* fault and store checks: the storage fault of that call, -1 for none
    lookedUp,         \* history: the update_ids OMDb has been asked about
    persisted,        \* history: the largest value save_last_update_id wrote, {} for none
    dropped,          \* crash check: the update_ids a crash took from a cycle, cursor saved
    nIn,              \* canonicalizer check: the caption handed to normalize_movie_name
    nOut,             \* canonicalizer check: <<>>, then <<n(x)>>, then <<n(x), n(n(x))>>
    txn,              \* store check: the transaction of an insert_movies call in steps
    reader,           \* store check: a get_all_movies call of another thread
    matcher           \* matcher check: the embedding model, the floor, a query, its result

----------------------------------------------------------------------------
(* Bounds *)

\* Longest caption of the canonicalizer check.
MaxCaptionLen == 8

\* How many updates the channel posts.
MaxUpdates == 3

\* Longest batch of the store check.
MaxBatch == 2

----------------------------------------------------------------------------
(* Characters: the classes of Python's re on str patterns, which are those  *)
(* of Unicode. A character of Latin-1 is written as itself; a character     *)
(* beyond Latin-1 is written as its code point in hexadecimal, "U+0663".    *)

\* The decimal digits (category Nd), block by block, each from zero to nine:
\* ASCII first.
DecimalBlocks ==
    <<<<"0", "1", "2", "3", "4", "5", "6", "7", "8", "9">>,
      <<"U+0660", "U+0661", "U+0662", "U+0663", "U+0664",
        "U+0665", "U+0666", "U+0667", "U+0668", "U+0669">>,
      <<"U+06F0", "U+06F1", "U+06F2", "U+06F3", "U+06F4",
        "U+06F5", "U+06F6", "U+06F7", "U+06F8", "U+06F9">>,
      <<"U+07C0", "U+07C1", "U+07C2", "U+07C3", "U+07C4",
        "U+07C5", "U+07C6", "U+07C7", "U+07C8", "U+07C9">>,
      <<"U+0966", "U+0967", "U+0968", "U+0969", "U+096A",
        "U+096B", "U+096C", "U+096D", "U+096E", "U+096F">>,
      <<"U+09E6", "U+09E7", "U+09E8", "U+09E9", "U+09EA",
        "U+09EB", "U+09EC", "U+09ED", "U+09EE", "U+09EF">>,
      <<"U+0A66", "U+0A67", "U+0A68", "U+0A69", "U+0A6A",
        "U+0A6B", "U+0A6C", "U+0A6D", "U+0A6E", "U+0A6F">>,
      <<"U+0AE6", "U+0AE7", "U+0AE8", "U+0AE9", "U+0AEA",
        "U+0AEB", "U+0AEC", "U+0AED", "U+0AEE", "U+0AEF">>,
      <<"U+0B66", "U+0B67", "U+0B68", "U+0B69", "U+0B6A",
        "U+0B6B", "U+0B6C", "U+0B6D", "U+0B6E", "U+0B6F">>,
      <<"U+0BE6", "U+0BE7", "U+0BE8", "U+0BE9", "U+0BEA",
        "U+0BEB", "U+0BEC", "U+0BED", "U+0BEE", "U+0BEF">>,
      <<"U+0C66", "U+0C67", "U+0C68", "U+0C69", "U+0C6A",
        "U+0C6B", "U+0C6C", "U+0C6D", "U+0C6E", "U+0C6F">>,
      <<"U+0CE6", "U+0CE7", "U+0CE8", "U+0CE9", "U+0CEA",
        "U+0CEB", "U+0CEC", "U+0CED", "U+0CEE", "U+0CEF">>,
      <<"U+0D66", "U+0D67", "U+0D68", "U+0D69", "U+0D6A",
        "U+0D6B", "U+0D6C", "U+0D6D", "U+0D6E", "U+0D6F">>,
      <<"U+0DE6", "U+0DE7", "U+0DE8", "U+0DE9", "U+0DEA",
        "U+0DEB", "U+0DEC", "U+0DED", "U+0DEE", "U+0DEF">>,
      <<"U+0E50", "U+0E51", "U+0E52", "U+0E53", "U+0E54",
        "U+0E55", "U+0E56", "U+0E57", "U+0E58", "U+0E59">>,
      <<"U+0ED0", "U+0ED1", "U+0ED2", "U+0ED3", "U+0ED4",
        "U+0ED5", "U+0ED6", "U+0ED7", "U+0ED8", "U+0ED9">>,
      <<"U+0F20", "U+0F21", "U+0F22", "U+0F23", "U+0F24",
        "U+0F25", "U+0F26", "U+0F27", "U+0F28", "U+0F29">>,
      <<"U+1040", "U+1041", "U+1042", "U+1043", "U+1044",
        "U+1045", "U+1046", "U+1047", "U+1048", "U+1049">>,
      <<"U+1090", "U+1091", "U+1092", "U+1093", "U+1094",
        "U+1095", "U+1096", "U+1097", "U+1098", "U+1099">>,
      <<"U+17E0", "U+17E1", "U+17E2", "U+17E3", "U+17E4",
        "U+17E5", "U+17E6", "U+17E7", "U+17E8", "U+17E9">>,
      <<"U+1810", "U+1811", "U+1812", "U+1813", "U+1814",
        "U+1815", "U+1816", "U+1817", "U+1818", "U+1819">>,
      <<"U+1946", "U+1947", "U+1948", "U+1949", "U+194A",
        "U+194B", "U+194C", "U+194D", "U+194E", "U+194F">>,
      <<"U+19D0", "U+19D1", "U+19D2", "U+19D3", "U+19D4",
        "U+19D5", "U+19D6", "U+19D7", "U+19D8", "U+19D9">>,
      <<"U+1A80", "U+1A81", "U+1A82", "U+1A83", "U+1A84",
        "U+1A85", "U+1A86", "U+1A87", "U+1A88", "U+1A89">>,
      <<"U+1A90", "U+1A91", "U+1A92", "U+1A93", "U+1A94",
        "U+1A95", "U+1A96", "U+1A97", "U+1A98", "U+1A99">>,
      <<"U+1B50", "U+1B51", "U+1B52", "U+1B53", "U+1B54",
        "U+1B55", "U+1B56", "U+1B57", "U+1B58", "U+1B59">>,
      <<"U+1BB0", "U+1BB1", "U+1BB2", "U+1BB3", "U+1BB4",
        "U+1BB5", "U+1BB6", "U+1BB7", "U+1BB8", "U+1BB9">>,
      <<"U+1C40", "U+1C41", "U+1C42", "U+1C43", "U+1C44",
        "U+1C45", "U+1C46", "U+1C47", "U+1C48", "U+1C49">>,
      <<"U+1C50", "U+1C51", "U+1C52", "U+1C53", "U+1C54",
        "U+1C55", "U+1C56", "U+1C57", "U+1C58", "U+1C59">>,
      <<"U+A620", "U+A621", "U+A622", "U+A623", "U+A624",
        "U+A625", "U+A626", "U+A627", "U+A628", "U+A629">>,
      <<"U+A8D0", "U+A8D1", "U+A8D2", "U+A8D3", "U+A8D4",
        "U+A8D5", "U+A8D6", "U+A8D7", "U+A8D8", "U+A8D9">>,
      <<"U+A900", "U+A901", "U+A902", "U+A903", "U+A904",
        "U+A905", "U+A906", "U+A907", "U+A908", "U+A909">>,
      <<"U+A9D0", "U+A9D1", "U+A9D2", "U+A9D3", "U+A9D4",
        "U+A9D5", "U+A9D6", "U+A9D7", "U+A9D8", "U+A9D9">>,
      <<"U+A9F0", "U+A9F1", "U+A9F2", "U+A9F3", "U+A9F4",
        "U+A9F5", "U+A9F6", "U+A9F7", "U+A9F8", "U+A9F9">>,
      <<"U+AA50", "U+AA51", "U+AA52", "U+AA53", "U+AA54",
        "U+AA55", "U+AA56", "U+AA57", "U+AA58", "U+AA59">>,
      <<"U+ABF0", "U+ABF1", "U+ABF2", "U+ABF3", "U+ABF4",
        "U+ABF5", "U+ABF6", "U+ABF7", "U+ABF8", "U+ABF9">>,
      <<"U+FF10", "U+FF11", "U+FF12", "U+FF13", "U+FF14",
        "U+FF15", "U+FF16", "U+FF17", "U+FF18", "U+FF19">>,
      <<"U+104A0", "U+104A1", "U+104A2", "U+104A3", "U+104A4",
        "U+104A5", "U+104A6", "U+104A7", "U+104A8", "U+104A9">>,
      <<"U+10D30", "U+10D31", "U+10D32", "U+10D33", "U+10D34",
        "U+10D35", "U+10D36", "U+10D37", "U+10D38", "U+10D39">>,
      <<"U+11066", "U+11067", "U+11068", "U+11069", "U+1106A",
        "U+1106B", "U+1106C", "U+1106D", "U+1106E", "U+1106F">>,
      <<"U+110F0", "U+110F1", "U+110F2", "U+110F3", "U+110F4",
        "U+110F5", "U+110F6", "U+110F7", "U+110F8", "U+110F9">>,
      <<"U+11136", "U+11137", "U+11138", "U+11139", "U+1113A",
        "U+1113B", "U+1113C", "U+1113D", "U+1113E", "U+1113F">>,
      <<"U+111D0", "U+111D1", "U+111D2", "U+111D3", "U+111D4",
        "U+111D5", "U+111D6", "U+111D7", "U+111D8", "U+111D9">>,
      <<"U+112F0", "U+112F1", "U+112F2", "U+112F3", "U+112F4",
        "U+112F5", "U+112F6", "U+112F7", "U+112F8", "U+112F9">>,
      <<"U+11450", "U+11451", "U+11452", "U+11453", "U+11454",
        "U+11455", "U+11456", "U+11457", "U+11458", "U+11459">>,
      <<"U+114D0", "U+114D1", "U+114D2", "U+114D3", "U+114D4",
        "U+114D5", "U+114D6", "U+114D7", "U+114D8", "U+114D9">>,
      <<"U+11650", "U+11651", "U+11652", "U+11653", "U+11654",
        "U+11655", "U+11656", "U+11657", "U+11658", "U+11659">>,
      <<"U+116C0", "U+116C1", "U+116C2", "U+116C3", "U+116C4",
        "U+116C5", "U+116C6", "U+116C7", "U+116C8", "U+116C9">>,
      <<"U+11730", "U+11731", "U+11732", "U+11733", "U+11734",
        "U+11735", "U+11736", "U+11737", "U+11738", "U+11739">>,
      <<"U+118E0", "U+118E1", "U+118E2", "U+118E3", "U+118E4",
        "U+118E5", "U+118E6", "U+118E7", "U+118E8", "U+118E9">>,
      <<"U+11950", "U+11951", "U+11952", "U+11953", "U+11954",
        "U+11955", "U+11956", "U+11957", "U+11958", "U+11959">>,
      <<"U+11C50", "U+11C51", "U+11C52", "U+11C53", "U+11C54",
        "U+11C55", "U+11C56", "U+11C57", "U+11C58", "U+11C59">>,
      <<"U+11D50", "U+11D51", "U+11D52", "U+11D53", "U+11D54",
        "U+11D55", "U+11D56", "U+11D57", "U+11D58", "U+11D59">>,
      <<"U+11DA0", "U+11DA1", "U+11DA2", "U+11DA3", "U+11DA4",
        "U+11DA5", "U+11DA6", "U+11DA7", "U+11DA8", "U+11DA9">>,
      <<"U+16A60", "U+16A61", "U+16A62", "U+16A63", "U+16A64",
        "U+16A65", "U+16A66", "U+16A67", "U+16A68", "U+16A69">>,
      <<"U+16AC0", "U+16AC1", "U+16AC2", "U+16AC3", "U+16AC4",
        "U+16AC5", "U+16AC6", "U+16AC7", "U+16AC8", "U+16AC9">>,
      <<"U+16B50", "U+16B51", "U+16B52", "U+16B53", "U+16B54",
        "U+16B55", "U+16B56", "U+16B57", "U+16B58", "U+16B59">>,
      <<"U+1D7CE", "U+1D7CF", "U+1D7D0", "U+1D7D1", "U+1D7D2",
        "U+1D7D3", "U+1D7D4", "U+1D7D5", "U+1D7D6", "U+1D7D7">>,
      <<"U+1D7D8", "U+1D7D9", "U+1D7DA", "U+1D7DB", "U+1D7DC",
        "U+1D7DD", "U+1D7DE", "U+1D7DF", "U+1D7E0", "U+1D7E1">>,
      <<"U+1D7E2", "U+1D7E3", "U+1D7E4", "U+1D7E5", "U+1D7E6",
        "U+1D7E7", "U+1D7E8", "U+1D7E9", "U+1D7EA", "U+1D7EB">>,
      <<"U+1D7EC", "U+1D7ED", "U+1D7EE", "U+1D7EF", "U+1D7F0",
        "U+1D7F1", "U+1D7F2", "U+1D7F3", "U+1D7F4", "U+1D7F5">>,
      <<"U+1D7F6", "U+1D7F7", "U+1D7F8", "U+1D7F9", "U+1D7FA",
        "U+1D7FB", "U+1D7FC", "U+1D7FD", "U+1D7FE", "U+1D7FF">>,
      <<"U+1E140", "U+1E141", "U+1E142", "U+1E143", "U+1E144",
        "U+1E145", "U+1E146", "U+1E147", "U+1E148", "U+1E149">>,
      <<"U+1E2F0", "U+1E2F1", "U+1E2F2", "U+1E2F3", "U+1E2F4",
        "U+1E2F5", "U+1E2F6", "U+1E2F7", "U+1E2F8", "U+1E2F9">>,
      <<"U+1E950", "U+1E951", "U+1E952", "U+1E953", "U+1E954",
        "U+1E955", "U+1E956", "U+1E957", "U+1E958", "U+1E959">>,
      <<"U+1FBF0", "U+1FBF1", "U+1FBF2", "U+1FBF3", "U+1FBF4",
        "U+1FBF5", "U+1FBF6", "U+1FBF7", "U+1FBF8", "U+1FBF9">>>>

\* \d, and the digits int() reads.
Digits == {DecimalBlocks[b][d] : b \in 1..Len(DecimalBlocks), d \in 1..10}

\* The hexadecimal digits of a code point, from zero to fifteen.
HexDigits ==
    <<"0", "1", "2", "3", "4", "5", "6", "7",
      "8", "9", "A", "B", "C", "D", "E", "F">>

HexVal(h) == CHOOSE v \in 0..15 : HexDigits[v + 1] = h

\* The number a string of hexadecimal digits writes.
RECURSIVE HexToNat(_)
HexToNat(h) ==
    IF Len(h) = 0 THEN 0
    ELSE 16 * HexToNat(SubSeq(h, 1, Len(h) - 1)) + HexVal(SubSeq(h, Len(h), Len(h)))

\* Whether the character is written as its code point.
IsNamed(c) == Len(c) >= 6 /\ SubSeq(c, 1, 2) = "U+"

\* ord(c) of a character beyond Latin-1.
CodePoint(c) == HexToNat(SubSeq(c, 3, Len(c)))

\* Whether a code point lies in one of the ranges <<first, last>>.
InRanges(n, ranges) ==
    \E i \in 1..Len(ranges) : ranges[i][1] <= n /\ n <= ranges[i][2]

\* The letters (str.isalpha) of ASCII and Latin-1.
Latin1Letters ==
    {"a", "b", "c", "d", "e", "f", "g", "h", "i", "j", "k", "l", "m",
     "n", "o", "p", "q", "r", "s", "t", "u", "v", "w", "x", "y", "z",
     "A", "B", "C", "D", "E", "F", "G", "H", "I", "J", "K", "L", "M",
     "N", "O", "P", "Q", "R", "S", "T", "U", "V", "W", "X", "Y", "Z",
     "ª", "µ", "º", "À", "Á", "Â", "Ã", "Ä", "Å", "Æ", "Ç", "È", "É",
     "Ê", "Ë", "Ì", "Í", "Î", "Ï", "Ð", "Ñ", "Ò", "Ó", "Ô", "Õ", "Ö",
     "Ø", "Ù", "Ú", "Û", "Ü", "Ý", "Þ", "ß", "à", "á", "â", "ã", "ä",
     "å", "æ", "ç", "è", "é", "ê", "ë", "ì", "í", "î", "ï", "ð", "ñ",
     "ò", "ó", "ô", "õ", "ö", "ø", "ù", "ú", "û", "ü", "ý", "þ", "ÿ"}

\* The letters (str.isalpha) beyond Latin-1, as ranges of code points.
LetterRanges ==
    <<<<256, 705>>, <<710, 721>>, <<736, 740>>, <<748, 748>>, <<750, 750>>,
      <<880, 884>>, <<886, 887>>, <<890, 893>>, <<895, 895>>, <<902, 902>>,
      <<904, 906>>, <<908, 908>>, <<910, 929>>, <<931, 1013>>,
      <<1015, 1153>>, <<1162, 1327>>, <<1329, 1366>>, <<1369, 1369>>,
      <<1376, 1416>>, <<1488, 1514>>, <<1519, 1522>>, <<1568, 1610>>,
      <<1646, 1647>>, <<1649, 1747>>, <<1749, 1749>>, <<1765, 1766>>,
      <<1774, 1775>>, <<1786, 1788>>, <<1791, 1791>>, <<1808, 1808>>,
      <<1810, 1839>>, <<1869, 1957>>, <<1969, 1969>>, <<1994, 2026>>,
      <<2036, 2037>>, <<2042, 2042>>, <<2048, 2069>>, <<2074, 2074>>,
      <<2084, 2084>>, <<2088, 2088>>, <<2112, 2136>>, <<2144, 2154>>,
      <<2160, 2183>>, <<2185, 2190>>, <<2208, 2249>>, <<2308, 2361>>,
      <<2365, 2365>>, <<2384, 2384>>, <<2392, 2401>>, <<2417, 2432>>,
      <<2437, 2444>>, <<2447, 2448>>, <<2451, 2472>>, <<2474, 2480>>,
      <<2482, 2482>>, <<2486, 2489>>, <<2493, 2493>>, <<2510, 2510>>,
      <<2524, 2525>>, <<2527, 2529>>, <<2544, 2545>>, <<2556, 2556>>,
      <<2565, 2570>>, <<2575, 2576>>, <<2579, 2600>>, <<2602, 2608>>,
      <<2610, 2611>>, <<2613, 2614>>, <<2616, 2617>>, <<2649, 2652>>,
      <<2654, 2654>>, <<2674, 2676>>, <<2693, 2701>>, <<2703, 2705>>,
      <<2707, 2728>>, <<2730, 2736>>, <<2738, 2739>>, <<2741, 2745>>,
      <<2749, 2749>>, <<2768, 2768>>, <<2784, 2785>>, <<2809, 2809>>,
      <<2821, 2828>>, <<2831, 2832>>, <<2835, 2856>>, <<2858, 2864>>,
      <<2866, 2867>>, <<2869, 2873>>, <<2877, 2877>>, <<2908, 2909>>,
      <<2911, 2913>>, <<2929, 2929>>, <<2947, 2947>>, <<2949, 2954>>,
      <<2958, 2960>>, <<2962, 2965>>, <<2969, 2970>>, <<2972, 2972>>,
      <<2974, 2975>>, <<2979, 2980>>, <<2984, 2986>>, <<2990, 3001>>,
      <<3024, 3024>>, <<3077, 3084>>, <<3086, 3088>>, <<3090, 3112>>,
      <<3114, 3129>>, <<3133, 3133>>, <<3160, 3162>>, <<3165, 3165>>,
      <<3168, 3169>>, <<3200, 3200>>, <<3205, 3212>>, <<3214, 3216>>,
      <<3218, 3240>>, <<3242, 3251>>, <<3253, 3257>>, <<3261, 3261>>,
      <<3293, 3294>>, <<3296, 3297>>, <<3313, 3314>>, <<3332, 3340>>,
      <<3342, 3344>>, <<3346, 3386>>, <<3389, 3389>>, <<3406, 3406>>,
      <<3412, 3414>>, <<3423, 3425>>, <<3450, 3455>>, <<3461, 3478>>,
      <<3482, 3505>>, <<3507, 3515>>, <<3517, 3517>>, <<3520, 3526>>,
      <<3585, 3632>>, <<3634, 3635>>, <<3648, 3654>>, <<3713, 3714>>,
      <<3716, 3716>>, <<3718, 3722>>, <<3724, 3747>>, <<3749, 3749>>,
      <<3751, 3760>>, <<3762, 3763>>, <<3773, 3773>>, <<3776, 3780>>,
      <<3782, 3782>>, <<3804, 3807>>, <<3840, 3840>>, <<3904, 3911>>,
      <<3913, 3948>>, <<3976, 3980>>, <<4096, 4138>>, <<4159, 4159>>,
      <<4176, 4181>>, <<4186, 4189>>, <<4193, 4193>>, <<4197, 4198>>,
      <<4206, 4208>>, <<4213, 4225>>, <<4238, 4238>>, <<4256, 4293>>,
      <<4295, 4295>>, <<4301, 4301>>, <<4304, 4346>>, <<4348, 4680>>,
      <<4682, 4685>>, <<4688, 4694>>, <<4696, 4696>>, <<4698, 4701>>,
      <<4704, 4744>>, <<4746, 4749>>, <<4752, 4784>>, <<4786, 4789>>,
      <<4792, 4798>>, <<4800, 4800>>, <<4802, 4805>>, <<4808, 4822>>,
      <<4824, 4880>>, <<4882, 4885>>, <<4888, 4954>>, <<4992, 5007>>,
      <<5024, 5109>>, <<5112, 5117>>, <<5121, 5740>>, <<5743, 5759>>,
      <<5761, 5786>>, <<5792, 5866>>, <<5873, 5880>>, <<5888, 5905>>,
      <<5919, 5937>>, <<5952, 5969>>, <<5984, 5996>>, <<5998, 6000>>,
      <<6016, 6067>>, <<6103, 6103>>, <<6108, 6108>>, <<6176, 6264>>,
      <<6272, 6276>>, <<6279, 6312>>, <<6314, 6314>>, <<6320, 6389>>,
      <<6400, 6430>>, <<6480, 6509>>, <<6512, 6516>>, <<6528, 6571>>,
      <<6576, 6601>>, <<6656, 6678>>, <<6688, 6740>>, <<6823, 6823>>,
      <<6917, 6963>>, <<6981, 6988>>, <<7043, 7072>>, <<7086, 7087>>,
      <<7098, 7141>>, <<7168, 7203>>, <<7245, 7247>>, <<7258, 7293>>,
      <<7296, 7304>>, <<7312, 7354>>, <<7357, 7359>>, <<7401, 7404>>,
      <<7406, 7411>>, <<7413, 7414>>, <<7418, 7418>>, <<7424, 7615>>,
      <<7680, 7957>>, <<7960, 7965>>, <<7968, 8005>>, <<8008, 8013>>,
      <<8016, 8023>>, <<8025, 8025>>, <<8027, 8027>>, <<8029, 8029>>,
      <<8031, 8061>>, <<8064, 8116>>, <<8118, 8124>>, <<8126, 8126>>,
      <<8130, 8132>>, <<8134, 8140>>, <<8144, 8147>>, <<8150, 8155>>,
      <<8160, 8172>>, <<8178, 8180>>, <<8182, 8188>>, <<8305, 8305>>,
      <<8319, 8319>>, <<8336, 8348>>, <<8450, 8450>>, <<8455, 8455>>,
      <<8458, 8467>>, <<8469, 8469>>, <<8473, 8477>>, <<8484, 8484>>,
      <<8486, 8486>>, <<8488, 8488>>, <<8490, 8493>>, <<8495, 8505>>,
      <<8508, 8511>>, <<8517, 8521>>, <<8526, 8526>>, <<8579, 8580>>,
      <<11264, 11492>>, <<11499, 11502>>, <<11506, 11507>>, <<11520, 11557>>,
      <<11559, 11559>>, <<11565, 11565>>, <<11568, 11623>>, <<11631, 11631>>,
      <<11648, 11670>>, <<11680, 11686>>, <<11688, 11694>>, <<11696, 11702>>,
      <<11704, 11710>>, <<11712, 11718>>, <<11720, 11726>>, <<11728, 11734>>,
      <<11736, 11742>>, <<11823, 11823>>, <<12293, 12294>>, <<12337, 12341>>,
      <<12347, 12348>>, <<12353, 12438>>, <<12445, 12447>>, <<12449, 12538>>,
      <<12540, 12543>>, <<12549, 12591>>, <<12593, 12686>>, <<12704, 12735>>,
      <<12784, 12799>>, <<13312, 19903>>, <<19968, 42124>>, <<42192, 42237>>,
      <<42240, 42508>>, <<42512, 42527>>, <<42538, 42539>>, <<42560, 42606>>,
      <<42623, 42653>>, <<42656, 42725>>, <<42775, 42783>>, <<42786, 42888>>,
      <<42891, 42954>>, <<42960, 42961>>, <<42963, 42963>>, <<42965, 42969>>,
      <<42994, 43009>>, <<43011, 43013>>, <<43015, 43018>>, <<43020, 43042>>,
      <<43072, 43123>>, <<43138, 43187>>, <<43250, 43255>>, <<43259, 43259>>,
      <<43261, 43262>>, <<43274, 43301>>, <<43312, 43334>>, <<43360, 43388>>,
      <<43396, 43442>>, <<43471, 43471>>, <<43488, 43492>>, <<43494, 43503>>,
      <<43514, 43518>>, <<43520, 43560>>, <<43584, 43586>>, <<43588, 43595>>,
      <<43616, 43638>>, <<43642, 43642>>, <<43646, 43695>>, <<43697, 43697>>,
      <<43701, 43702>>, <<43705, 43709>>, <<43712, 43712>>, <<43714, 43714>>,
      <<43739, 43741>>, <<43744, 43754>>, <<43762, 43764>>, <<43777, 43782>>,
      <<43785, 43790>>, <<43793, 43798>>, <<43808, 43814>>, <<43816, 43822>>,
      <<43824, 43866>>, <<43868, 43881>>, <<43888, 44002>>, <<44032, 55203>>,
      <<55216, 55238>>, <<55243, 55291>>, <<63744, 64109>>, <<64112, 64217>>,
      <<64256, 64262>>, <<64275, 64279>>, <<64285, 64285>>, <<64287, 64296>>,
      <<64298, 64310>>, <<64312, 64316>>, <<64318, 64318>>, <<64320, 64321>>,
      <<64323, 64324>>, <<64326, 64433>>, <<64467, 64829>>, <<64848, 64911>>,
      <<64914, 64967>>, <<65008, 65019>>, <<65136, 65140>>, <<65142, 65276>>,
      <<65313, 65338>>, <<65345, 65370>>, <<65382, 65470>>, <<65474, 65479>>,
      <<65482, 65487>>, <<65490, 65495>>, <<65498, 65500>>, <<65536, 65547>>,
      <<65549, 65574>>, <<65576, 65594>>, <<65596, 65597>>, <<65599, 65613>>,
      <<65616, 65629>>, <<65664, 65786>>, <<66176, 66204>>, <<66208, 66256>>,
      <<66304, 66335>>, <<66349, 66368>>, <<66370, 66377>>, <<66384, 66421>>,
      <<66432, 66461>>, <<66464, 66499>>, <<66504, 66511>>, <<66560, 66717>>,
      <<66736, 66771>>, <<66776, 66811>>, <<66816, 66855>>, <<66864, 66915>>,
      <<66928, 66938>>, <<66940, 66954>>, <<66956, 66962>>, <<66964, 66965>>,
      <<66967, 66977>>, <<66979, 66993>>, <<66995, 67001>>, <<67003, 67004>>,
      <<67072, 67382>>, <<67392, 67413>>, <<67424, 67431>>, <<67456, 67461>>,
      <<67463, 67504>>, <<67506, 67514>>, <<67584, 67589>>, <<67592, 67592>>,
      <<67594, 67637>>, <<67639, 67640>>, <<67644, 67644>>, <<67647, 67669>>,
      <<67680, 67702>>, <<67712, 67742>>, <<67808, 67826>>, <<67828, 67829>>,
      <<67840, 67861>>, <<67872, 67897>>, <<67968, 68023>>, <<68030, 68031>>,
      <<68096, 68096>>, <<68112, 68115>>, <<68117, 68119>>, <<68121, 68149>>,
      <<68192, 68220>>, <<68224, 68252>>, <<68288, 68295>>, <<68297, 68324>>,
      <<68352, 68405>>, <<68416, 68437>>, <<68448, 68466>>, <<68480, 68497>>,
      <<68608, 68680>>, <<68736, 68786>>, <<68800, 68850>>, <<68864, 68899>>,
      <<69248, 69289>>, <<69296, 69297>>, <<69376, 69404>>, <<69415, 69415>>,
      <<69424, 69445>>, <<69488, 69505>>, <<69552, 69572>>, <<69600, 69622>>,
      <<69635, 69687>>, <<69745, 69746>>, <<69749, 69749>>, <<69763, 69807>>,
      <<69840, 69864>>, <<69891, 69926>>, <<69956, 69956>>, <<69959, 69959>>,
      <<69968, 70002>>, <<70006, 70006>>, <<70019, 70066>>, <<70081, 70084>>,
      <<70106, 70106>>, <<70108, 70108>>, <<70144, 70161>>, <<70163, 70187>>,
      <<70272, 70278>>, <<70280, 70280>>, <<70282, 70285>>, <<70287, 70301>>,
      <<70303, 70312>>, <<70320, 70366>>, <<70405, 70412>>, <<70415, 70416>>,
      <<70419, 70440>>, <<70442, 70448>>, <<70450, 70451>>, <<70453, 70457>>,
      <<70461, 70461>>, <<70480, 70480>>, <<70493, 70497>>, <<70656, 70708>>,
      <<70727, 70730>>, <<70751, 70753>>, <<70784, 70831>>, <<70852, 70853>>,
      <<70855, 70855>>, <<71040, 71086>>, <<71128, 71131>>, <<71168, 71215>>,
      <<71236, 71236>>, <<71296, 71338>>, <<71352, 71352>>, <<71424, 71450>>,
      <<71488, 71494>>, <<71680, 71723>>, <<71840, 71903>>, <<71935, 71942>>,
      <<71945, 71945>>, <<71948, 71955>>, <<71957, 71958>>, <<71960, 71983>>,
      <<71999, 71999>>, <<72001, 72001>>, <<72096, 72103>>, <<72106, 72144>>,
      <<72161, 72161>>, <<72163, 72163>>, <<72192, 72192>>, <<72203, 72242>>,
      <<72250, 72250>>, <<72272, 72272>>, <<72284, 72329>>, <<72349, 72349>>,
      <<72368, 72440>>, <<72704, 72712>>, <<72714, 72750>>, <<72768, 72768>>,
      <<72818, 72847>>, <<72960, 72966>>, <<72968, 72969>>, <<72971, 73008>>,
      <<73030, 73030>>, <<73056, 73061>>, <<73063, 73064>>, <<73066, 73097>>,
      <<73112, 73112>>, <<73440, 73458>>, <<73648, 73648>>, <<73728, 74649>>,
      <<74880, 75075>>, <<77712, 77808>>, <<77824, 78894>>, <<82944, 83526>>,
      <<92160, 92728>>, <<92736, 92766>>, <<92784, 92862>>, <<92880, 92909>>,
      <<92928, 92975>>, <<92992, 92995>>, <<93027, 93047>>, <<93053, 93071>>,
      <<93760, 93823>>, <<93952, 94026>>, <<94032, 94032>>, <<94099, 94111>>,
      <<94176, 94177>>, <<94179, 94179>>, <<94208, 100343>>,
      <<100352, 101589>>, <<101632, 101640>>, <<110576, 110579>>,
      <<110581, 110587>>, <<110589, 110590>>, <<110592, 110882>>,
      <<110928, 110930>>, <<110948, 110951>>, <<110960, 111355>>,
      <<113664, 113770>>, <<113776, 113788>>, <<113792, 113800>>,
      <<113808, 113817>>, <<119808, 119892>>, <<119894, 119964>>,
      <<119966, 119967>>, <<119970, 119970>>, <<119973, 119974>>,
      <<119977, 119980>>, <<119982, 119993>>, <<119995, 119995>>,
      <<119997, 120003>>, <<120005, 120069>>, <<120071, 120074>>,
      <<120077, 120084>>, <<120086, 120092>>, <<120094, 120121>>,
      <<120123, 120126>>, <<120128, 120132>>, <<120134, 120134>>,
      <<120138, 120144>>, <<120146, 120485>>, <<120488, 120512>>,
      <<120514, 120538>>, <<120540, 120570>>, <<120572, 120596>>,
      <<120598, 120628>>, <<120630, 120654>>, <<120656, 120686>>,
      <<120688, 120712>>, <<120714, 120744>>, <<120746, 120770>>,
      <<120772, 120779>>, <<122624, 122654>>, <<123136, 123180>>,
      <<123191, 123197>>, <<123214, 123214>>, <<123536, 123565>>,
      <<123584, 123627>>, <<124896, 124902>>, <<124904, 124907>>,
      <<124909, 124910>>, <<124912, 124926>>, <<124928, 125124>>,
      <<125184, 125251>>, <<125259, 125259>>, <<126464, 126467>>,
      <<126469, 126495>>, <<126497, 126498>>, <<126500, 126500>>,
      <<126503, 126503>>, <<126505, 126514>>, <<126516, 126519>>,
      <<126521, 126521>>, <<126523, 126523>>, <<126530, 126530>>,
      <<126535, 126535>>, <<126537, 126537>>, <<126539, 126539>>,
      <<126541, 126543>>, <<126545, 126546>>, <<126548, 126548>>,
      <<126551, 126551>>, <<126553, 126553>>, <<126555, 126555>>,
      <<126557, 126557>>, <<126559, 126559>>, <<126561, 126562>>,
      <<126564, 126564>>, <<126567, 126570>>, <<126572, 126578>>,
      <<126580, 126583>>, <<126585, 126588>>, <<126590, 126590>>,
      <<126592, 126601>>, <<126603, 126619>>, <<126625, 126627>>,
      <<126629, 126633>>, <<126635, 126651>>, <<131072, 173791>>,
      <<173824, 177976>>, <<177984, 178205>>, <<178208, 183969>>,
      <<183984, 191456>>, <<194560, 195101>>, <<196608, 201546>>>>

\* str.isalpha()
IsLetter(c) ==
    c \in Latin1Letters \/ (IsNamed(c) /\ InRanges(CodePoint(c), LetterRanges))

\* The numeric characters of Latin-1 that are no decimal digits (superscripts,
\* fractions): \w matches them, \d does not.
Latin1Numerics == {"²", "³", "¹", "¼", "½", "¾"}

\* The numeric characters beyond Latin-1 that are neither letters nor decimal
\* digits (fractions, Roman numerals, circled digits ...), as ranges of code
\* points.
NumericRanges ==
    <<<<2548, 2553>>, <<2930, 2935>>, <<3056, 3058>>, <<3192, 3198>>,
      <<3416, 3422>>, <<3440, 3448>>, <<3882, 3891>>, <<4969, 4988>>,
      <<5870, 5872>>, <<6128, 6137>>, <<6618, 6618>>, <<8304, 8304>>,
      <<8308, 8313>>, <<8320, 8329>>, <<8528, 8578>>, <<8581, 8585>>,
      <<9312, 9371>>, <<9450, 9471>>, <<10102, 10131>>, <<11517, 11517>>,
      <<12295, 12295>>, <<12321, 12329>>, <<12344, 12346>>, <<12690, 12693>>,
      <<12832, 12841>>, <<12872, 12879>>, <<12881, 12895>>, <<12928, 12937>>,
      <<12977, 12991>>, <<42726, 42735>>, <<43056, 43061>>, <<65799, 65843>>,
      <<65856, 65912>>, <<65930, 65931>>, <<66273, 66299>>, <<66336, 66339>>,
      <<66369, 66369>>, <<66378, 66378>>, <<66513, 66517>>, <<67672, 67679>>,
      <<67705, 67711>>, <<67751, 67759>>, <<67835, 67839>>, <<67862, 67867>>,
      <<68028, 68029>>, <<68032, 68047>>, <<68050, 68095>>, <<68160, 68168>>,
      <<68221, 68222>>, <<68253, 68255>>, <<68331, 68335>>, <<68440, 68447>>,
      <<68472, 68479>>, <<68521, 68527>>, <<68858, 68863>>, <<69216, 69246>>,
      <<69405, 69414>>, <<69457, 69460>>, <<69573, 69579>>, <<69714, 69733>>,
      <<70113, 70132>>, <<71482, 71483>>, <<71914, 71922>>, <<72794, 72812>>,
      <<73664, 73684>>, <<74752, 74862>>, <<93019, 93025>>, <<93824, 93846>>,
      <<119520, 119539>>, <<119648, 119672>>, <<125127, 125135>>,
      <<126065, 126123>>, <<126125, 126127>>, <<126129, 126132>>,
      <<126209, 126253>>, <<126255, 126269>>, <<127232, 127244>>>>

\* What \w matches besides letters, decimal digits and the underscore.
IsNumeric(c) ==
    c \in Latin1Numerics \/ (IsNamed(c) /\ InRanges(CodePoint(c), NumericRanges))

\* \w : letters, digits, other numerics and the underscore.
IsWord(c) == IsLetter(c) \/ c \in Digits \/ IsNumeric(c) \/ c = "_"

\* The whitespace of \s and of str.strip(): space, \t, \n, \v, \f, \r, the
\* separators \x1c to \x1f, \x85, \xa0 and the spaces beyond Latin-1.
Spaces ==
    {" ", "\t", "\n", "", "\f", "\r", "", "", "", "", "", " ",
     "U+1680", "U+2000", "U+2001", "U+2002", "U+2003", "U+2004",
     "U+2005", "U+2006", "U+2007", "U+2008", "U+2009", "U+200A",
     "U+2028", "U+2029", "U+202F", "U+205F", "U+3000"}

\* \s : whitespace.
IsSpace(c) == c \in Spaces

\* \d
IsDigit(c) == c \in Digits

----------------------------------------------------------------------------
(* String literals of the source *)

Placeholder ==
    <<"N", "o", " ", "d", "e", "t", "a", "i", "l", "s", " ",
      "a", "v", "a", "i", "l", "a", "b", "l", "e">>

ErrorSentinel ==
    <<"E", "r", "r", "o", "r", " ", "f", "e", "t", "c", "h", "i", "n", "g", " ",
      "m", "o", "v", "i", "e", " ", "d", "e", "t", "a", "i", "l", "s", ".">>

NotAvailableSentinel ==
    <<"M", "o", "v", "i", "e", " ", "d", "e", "t", "a", "i", "l", "s", " ",
      "n", "o", "t", " ", "a", "v", "a", "i", "l", "a", "b", "l", "e", ".">>

----------------------------------------------------------------------------
(* normalize_movie_name *)

\* re.sub(r'[^\w\s]', ' ', caption)
ReplaceSpecial(s) ==
    [i \in 1..Len(s) |-> IF IsWord(s[i]) \/ IsSpace(s[i]) THEN s[i] ELSE " "]

\* re.sub(r'\s+', ' ', name): every maximal run of whitespace becomes one space.
RECURSIVE CollapseSpaces(_)
CollapseSpaces(s) ==
    IF s = <<>> THEN <<>>
    ELSE IF IsSpace(Head(s))
         THEN IF Len(s) > 1 /\ IsSpace(s[2])
              THEN CollapseSpaces(Tail(s))
              ELSE <<" ">> \o CollapseSpaces(Tail(s))
         ELSE <<Head(s)>> \o CollapseSpaces(Tail(s))

\* str.lstrip()
RECURSIVE LStrip(_)
LStrip(s) ==
    IF s # <<>> /\ IsSpace(Head(s)) THEN LStrip(Tail(s)) ELSE s

\* str.rstrip()
RECURSIVE RStrip(_)
RStrip(s) ==
    IF s # <<>> /\ IsSpace(s[Len(s)]) THEN RStrip(SubSeq(s, 1, Len(s) - 1)) ELSE s

\* str.strip()
Strip(s) == LStrip(RStrip(s))

\* Whether \d{4} matches at position i of s.
YearAt(s, i) ==
    /\ i >= 1
    /\ i + 3 <= Len(s)
    /\ \A j \in i..(i + 3) : IsDigit(s[j])

\* re.search(r'(\d{4})', name): the start of the leftmost match, 0 for no match.
SearchYear(s) ==
    IF \E i \in 1..Len(s) : YearAt(s, i)
    THEN CHOOSE i \in 1..Len(s) : YearAt(s, i) /\ \A j \in 1..(i - 1) : ~YearAt(s, j)
    ELSE 0

\* A mutant of RemoveYears: the year is left in the body.
RemoveYearsKept(s) == s

\* re.sub(r'(\d{4})', '', name): every non-overlapping match, left to right,
\* is deleted.
RECURSIVE RemoveYears(_)
RemoveYears(s) ==
    IF Len(s) < 4 THEN s
    ELSE IF YearAt(s, 1)
         THEN RemoveYears(SubSeq(s, 5, Len(s)))
         ELSE <<Head(s)>> \o RemoveYears(Tail(s))

\* The function, statement by statement.
normalize_movie_name(caption) ==
    LET name1 == ReplaceSpecial(caption)
        name2 == Strip(CollapseSpaces(name1))
        at    == SearchYear(name2)
    IN  IF at # 0
        THEN LET year  == SubSeq(name2, at, at + 3)
                 name3 == Strip(RemoveYears(name2))
             IN  name3 \o <<" ", "(">> \o year \o <<")">>
        ELSE name2

----------------------------------------------------------------------------
(* The cursor file: get_last_update_id, save_last_update_id *)

DigitChars == <<"0", "1", "2", "3", "4", "5", "6", "7", "8", "9">>

\* str(n) for an integer n.
RECURSIVE NatToStr(_)
NatToStr(n) ==
    IF n < 10 THEN <<DigitChars[n + 1]>>
    ELSE NatToStr(n \div 10) \o <<DigitChars[(n % 10) + 1]>>

IntToStr(n) == IF n < 0 THEN <<"-">> \o NatToStr(-n) ELSE NatToStr(n)

\* The value of a decimal digit: its place in its block.
DigitVal(c) ==
    CHOOSE d \in 0..9 : \E b \in 1..Len(DecimalBlocks) : DecimalBlocks[b][d + 1] = c

RECURSIVE DigitsToNat(_)
DigitsToNat(s) ==
    IF s = <<>> THEN 0
    ELSE 10 * DigitsToNat(SubSeq(s, 1, Len(s) - 1)) + DigitVal(s[Len(s)])

\* s without its underscores.
RECURSIVE WithoutUnderscores(_)
WithoutUnderscores(s) ==
    IF s = <<>> THEN <<>>
    ELSE IF Head(s) = "_" THEN WithoutUnderscores(Tail(s))
         ELSE <<Head(s)>> \o WithoutUnderscores(Tail(s))

\* int() accepts s as an unsigned number: decimal digits, with single
\* underscores between digits.
AllDigits(s) ==
    /\ s # <<>>
    /\ \A i \in 1..Len(s) :
           \/ IsDigit(s[i])
           \/ /\ s[i] = "_"
              /\ i > 1 /\ IsDigit(s[i - 1])
              /\ i < Len(s) /\ IsDigit(s[i + 1])

\* int(text.strip()): {n} for the integer n, {} where Python raises ValueError.
ParseInt(text) ==
    LET t == Strip(text)
    IN  IF AllDigits(t) THEN {DigitsToNat(WithoutUnderscores(t))}
        ELSE IF Len(t) > 1 /\ t[1] = "-" /\ AllDigits(Tail(t))
             THEN {-DigitsToNat(WithoutUnderscores(Tail(t)))}
        ELSE IF Len(t) > 1 /\ t[1] = "+" /\ AllDigits(Tail(t))
             THEN {DigitsToNat(WithoutUnderscores(Tail(t)))}
        ELSE {}

NoFile == [exists |-> FALSE, text |-> <<>>]

\* get_last_update_id: None ({}) for a missing or unreadable file.
get_last_update_id(file) ==
    IF file.exists THEN ParseInt(file.text) ELSE {}

\* save_last_update_id: the file's new content.
save_last_update_id(update_id) ==
    [exists |-> TRUE, text |-> IntToStr(update_id)]

\* Line 54 alone: open(..., "w") creates the file or empties it; the text is
\* written at line 55.
OpenedForWriting == [exists |-> TRUE, text |-> <<>>]

----------------------------------------------------------------------------
(* The catalog: table movies with normalized_name TEXT UNIQUE *)

Keys(rows) == {rows[i][1] : i \in 1..Len(rows)}

\* A mutant of InsertOrIgnore: a plain INSERT into a table without UNIQUE.
InsertAlways(rows, movie) == Append(rows, movie)

\* INSERT OR IGNORE of one row: a row whose normalized_name is in the table is
\* skipped.
InsertOrIgnore(rows, movie) ==
    IF movie[1] \in Keys(rows) THEN rows ELSE Append(rows, movie)

\* executemany: the rows of the batch in order.
RECURSIVE ExecuteMany(_, _)
ExecuteMany(rows, movies) ==
    IF movies = <<>> THEN rows
    ELSE ExecuteMany(InsertOrIgnore(rows, Head(movies)), Tail(movies))

\* The storage faults of one insert_movies call: -1 for none, k >= 0 for a
\* sqlite3.Error raised after k rows of the batch were executed (k = Len(movies):
\* at the commit).
Faults(movies) == (-1)..Len(movies)

\* A mutant of insert_movies: a plain INSERT, whose IntegrityError on a
\* collision rolls the batch back.
insert_movies_strict(rows, movies, fault) ==
    IF fault = -1
          /\ \A k \in 1..Len(movies) :
                 /\ movies[k][1] \notin Keys(rows)
                 /\ \A m \in 1..(k - 1) : movies[m][1] # movies[k][1]
    THEN ExecuteMany(rows, movies)
    ELSE rows

\* insert_movies: the table after the call. An sqlite3.Error leaves the "with"
\* block by an exception, so the connection rolls the transaction back before
\* the except clause logs the error.
insert_movies(rows, movies, fault) ==
    IF fault = -1
    THEN ExecuteMany(rows, movies)
    ELSE LET executed == ExecuteMany(rows, SubSeq(movies, 1, fault))
             rolledBack == rows
         IN  rolledBack

\* No insert_movies call is under way: the connection of line 87 is not open.
NoTxn == [pc |-> "none", rows |-> <<>>, done |-> 0, before |-> <<>>]

\* No get_all_movies call is under way.
NoReader == [pc |-> "none", rows |-> <<>>, seen |-> <<>>]

\* A mutant of get_all_movies: the reader shares the connection of the writer
\* and so reads the rows of its open transaction.
get_all_movies_shared(rows) == IF txn.pc = "open" THEN txn.rows ELSE rows

\* get_all_movies: the rows of the table. The SELECT runs on a connection of
\* its own, which sees committed rows only.
get_all_movies(rows) == rows

----------------------------------------------------------------------------
(* The semantic matcher: best_match *)

\* The vectors of the embedding model, of one length: the cosine of two of
\* them is their dot product over 25.
Vectors == {<<5, 0>>, <<4, 3>>, <<0, 5>>, <<-5, 0>>}

\* Cosine similarity, times 25.
Similarity(u, v) == u[1] * v[1] + u[2] * v[2]

\* The similarity of a vector to itself, the largest there is.
MaximalSimilarity == 25

\* Floors the matcher may be configured with, times 25.
Floors == {15, 25}

\* The text of an entry that is embedded: its description, or its canonical
\* key if the description is a sentinel or empty.
EmbeddedText(entry) ==
    IF entry[2] \in {<<>>, ErrorSentinel, NotAvailableSentinel}
    THEN entry[1]
    ELSE entry[2]

\* The similarity of an entry to the query under an embedding.
EntrySimilarity(entry, query, embed) ==
    Similarity(embed[EmbeddedText(entry)], embed[query])

\* The entries of the snapshot closest to the query.
Closest(query, snapshot, embed) ==
    {i \in 1..Len(snapshot) :
        \A j \in 1..Len(snapshot) :
            EntrySimilarity(snapshot[i], query, embed)
                >= EntrySimilarity(snapshot[j], query, embed)}

\* A mutant of best_match: the closest entry is returned whatever its
\* similarity.
best_match_unfloored(query, snapshot, embed, floor) ==
    IF snapshot = <<>> THEN {{}}
    ELSE {{snapshot[i]} : i \in Closest(query, snapshot, embed)}

\* best_match: the results the contract allows, {} for absent and {entry} for
\* an entry. Which of several closest entries is returned is left open.
best_match(query, snapshot, embed, floor) ==
    LET above == {i \in Closest(query, snapshot, embed) :
                     EntrySimilarity(snapshot[i], query, embed) >= floor}
    IN  IF above = {} THEN {{}} ELSE {{snapshot[i]} : i \in above}

\* No query has been made.
NoMatcher ==
    [called |-> FALSE, query |-> <<>>, floor |-> 0, embed |-> <<>>, result |-> {}]

----------------------------------------------------------------------------
(* fetch_movie_details_from_omdb *)

NA == <<"N", "/", "A">>

\* data.get(field, 'N/A')
Get(data, field) == IF field \in DOMAIN data THEN data[field] ELSE NA

\* The summary of a response with "Response": "True".
FormatDetails(data) ==
    <<"T", "i", "t", "l", "e", ":", " ">> \o Get(data, "Title")
    \o <<"\n", "Y", "e", "a", "r", ":", " ">> \o Get(data, "Year")
    \o <<"\n", "G", "e", "n", "r", "e", ":", " ">> \o Get(data, "Genre")
    \o <<"\n", "D", "i", "r", "e", "c", "t", "o", "r", ":", " ">> \o Get(data, "Director")
    \o <<"\n", "P", "l", "o", "t", ":", " ">> \o Get(data, "Plot")

\* Bodies the service may send: every field, no field but Response, a refusal.
FullData ==
    [Response |-> <<"T", "r", "u", "e">>,
     Title |-> <<"U", "p">>, Year |-> <<"2", "0", "0", "9">>,
     Genre |-> <<"A", "n", "i", "m", "a", "t", "i", "o", "n">>,
     Director |-> <<"P", "e", "t", "e", " ", "D", "o", "c", "t", "e", "r">>,
     Plot |-> <<"A", " ", "b", "a", "l", "l", "o", "o", "n", " ", "t", "r", "i", "p", ".">>]

BareData == [Response |-> <<"T", "r", "u", "e">>]

RefusalData == [Response |-> <<"F", "a", "l", "s", "e">>]

\* The ends of lines 110-112 the function returns from: a body that is a
\* JSON object (raised |-> FALSE), or a RequestException (a connection error, a
\* timeout the transport reports, a non-2xx status at raise_for_status, and
\* with requests from 2.27 on a body that is not JSON).
OmdbOutcomes ==
    {[raised |-> FALSE, data |-> FullData],
     [raised |-> FALSE, data |-> BareData],
     [raised |-> FALSE, data |-> RefusalData],
     [raised |-> TRUE, data |-> RefusalData]}

\* The value fetch_movie_details_from_omdb returns for an outcome.
fetch_movie_details_from_omdb(outcome) ==
    IF outcome.raised THEN ErrorSentinel
    ELSE IF Get(outcome.data, "Response") = <<"T", "r", "u", "e">>
         THEN FormatDetails(outcome.data)
         ELSE NotAvailableSentinel

\* What the function logs for an outcome.
OmdbLog(outcome) ==
    IF outcome.raised THEN {"omdb_error"}
    ELSE IF Get(outcome.data, "Response") = <<"T", "r", "u", "e">> THEN {}
         ELSE {"omdb_warning"}

\* The ends of lines 110-113 that are no RequestException, so that the except
\* clause of line 125 lets them pass: a body that is JSON and no object (a
\* list, a string, null: data.get raises AttributeError), and with requests
\* before 2.27 a body that is not JSON (response.json() raises ValueError).
OmdbEscapes == {"not_an_object", "not_json"}

----------------------------------------------------------------------------
(* The channel: what bot.get_updates hands to the cycle *)

NoCaption == [present |-> FALSE, text |-> <<>>]

Caption(t) == [present |-> TRUE, text |-> t]

MatrixCaption ==
    <<"T", "h", "e", " ", "M", "a", "t", "r", "i", "x", ",", " ",
      "1", "9", "9", "9", "!", "!">>

MatrixCaption2 ==
    <<"T", "h", "e", " ", "M", "a", "t", "r", "i", "x", " ", "1", "9", "9", "9">>

\* A caption with a number in the title and the year after it.
TwoYearsCaption ==
    <<"B", "l", "a", "d", "e", " ", "R", "u", "n", "n", "e", "r", " ",
      "2", "0", "4", "9", " ", "2", "0", "1", "7">>

NoFileId == "none"

\* The updates the channel posts: without a message, messages without a
\* document (no caption, an empty one, a caption), messages with a document
\* (no caption, the caption "No details available", two captions of one key).
UpdateKinds ==
    {[message |-> FALSE, caption |-> NoCaption, document |-> FALSE, file_id |-> NoFileId],
     [message |-> TRUE, caption |-> NoCaption, document |-> FALSE, file_id |-> NoFileId],
     [message |-> TRUE, caption |-> Caption(<<>>), document |-> FALSE, file_id |-> NoFileId],
     [message |-> TRUE, caption |-> Caption(MatrixCaption), document |-> FALSE, file_id |-> NoFileId],
     [message |-> TRUE, caption |-> NoCaption, document |-> TRUE, file_id |-> "f1"],
     [message |-> TRUE, caption |-> Caption(Placeholder), document |-> TRUE, file_id |-> "f2"],
     [message |-> TRUE, caption |-> Caption(MatrixCaption), document |-> TRUE, file_id |-> "f3"],
     [message |-> TRUE, caption |-> Caption(MatrixCaption2), document |-> TRUE, file_id |-> "f4"]}

\* The update of a kind with its id.
MakeUpdate(id, kind) ==
    [update_id |-> id, message |-> kind.message, caption |-> kind.caption,
     document |-> kind.document, file_id |-> kind.file_id]

\* The elements of a sequence that satisfy a test, in order.
RECURSIVE SelectFrom(_, _)
SelectFrom(s, from) ==
    IF s = <<>> THEN <<>>
    ELSE IF Head(s).update_id >= from
         THEN <<Head(s)>> \o SelectFrom(Tail(s), from)
         ELSE SelectFrom(Tail(s), from)

Max(a, b) == IF a >= b THEN a ELSE b

\* getUpdates confirms every update below the offset it is given; without an
\* offset nothing more is confirmed.
ConfirmedAfter(conf, offset) ==
    IF offset = {} THEN conf ELSE Max(conf, CHOOSE n \in offset : TRUE)

\* bot.get_updates(offset=...): the unconfirmed updates from the offset on, in
\* id order.
GetUpdatesResult(all, conf, offset) ==
    SelectFrom(all, ConfirmedAfter(conf, offset))

\* The exceptions of get_updates the cycle catches, with what it logs.
ChannelErrors == {"retry_after", "conflict", "unauthorized", "telegram_error"}

----------------------------------------------------------------------------
(* fetch_movies_from_channel, statement by statement *)

\* Lines 155-156: the cursor file after the update is consumed.
CursorAfterUpdate(file, update) ==
    IF update.update_id # 0
    THEN save_last_update_id(update.update_id + 1)
    ELSE file

\* The largest value written so far, after the update is consumed.
PersistedAfterUpdate(largest, update) ==
    IF update.update_id # 0
    THEN IF largest # {} /\ (CHOOSE n \in largest : TRUE) >= update.update_id + 1
         THEN largest
         ELSE {update.update_id + 1}
    ELSE largest

\* A mutant of HasDocument: every message is taken for a file posting.
HasDocumentAny(update) == update.message

\* Line 157: update.message and update.message.document
HasDocument(update) == update.message /\ update.document

\* Line 159: update.message.caption or "No details available"
CaptionOrPlaceholder(update) ==
    IF update.caption.present /\ update.caption.text # <<>>
    THEN update.caption.text
    ELSE Placeholder

\* The captions line 160 can meet, each with its canonical key.
KeyTable ==
    {<<text, normalize_movie_name(text)>> :
         text \in {Placeholder, TwoYearsCaption}
                      \cup {kind.caption.text : kind \in UpdateKinds}}

\* Line 160: normalize_movie_name(caption), read from the table.
CanonicalKey(text) == (CHOOSE entry \in KeyTable : entry[1] = text)[2]

\* Line 163: details == "No details available"
NeedsLookup(details) == details = Placeholder

\* Lines 165-166: the description after the lookup returned online_details.
DetailsAfterLookup(details, online_details) ==
    IF online_details # <<>> THEN online_details ELSE details

\* Lines 160, 164: the name fetch_movie_details_from_omdb is called with.
LookupKey(update) == CanonicalKey(CaptionOrPlaceholder(update))

\* A mutant of StagedEntry: the entry is keyed by its file.
StagedEntryByFile(update, details) ==
    <<<<update.file_id>>, details, update.file_id>>

\* Line 168: the entry staged for an update with the description details.
StagedEntry(update, details) ==
    <<CanonicalKey(CaptionOrPlaceholder(update)), details, update.file_id>>

CycleLocalsCleared ==
    /\ last_update_id' = {}
    /\ updates' = <<>>
    /\ idx' = 1
    /\ movies_to_insert' = <<>>

\* The channel posts one more update.
Post(kind) ==
    /\ pc = "idle"
    /\ Len(posted) < MaxUpdates
    /\ posted' = Append(posted, MakeUpdate(nextId, kind))
    /\ nextId' = nextId + 1
    /\ UNCHANGED <<cursorFile, catalog, confirmed, pc, last_update_id, updates, idx,
                   movies_to_insert, logged, insertCalled, faultAt, lookedUp, persisted, dropped,
                   nIn, nOut, txn, reader, matcher>>

\* A mutant of StartCycle: a missing cursor file is created with 0.
StartCycleCreatingFile ==
    /\ pc = "idle"
    /\ pc' = "fetch"
    /\ cursorFile' = IF cursorFile.exists THEN cursorFile ELSE save_last_update_id(0)
    /\ last_update_id' = get_last_update_id(cursorFile')
    /\ logged' = {}
    /\ insertCalled' = FALSE
    /\ faultAt' = -1
    /\ updates' = <<>>
    /\ idx' = 1
    /\ movies_to_insert' = <<>>
    /\ UNCHANGED <<catalog, posted, nextId, confirmed, lookedUp, persisted, dropped, nIn, nOut,
                   txn, reader, matcher>>

\* Lines 132-136: the job starts and reads the cursor.
StartCycle ==
    /\ pc = "idle"
    /\ pc' = "fetch"
    /\ last_update_id' = get_last_update_id(cursorFile)
    /\ logged' = IF cursorFile.exists /\ ParseInt(cursorFile.text) = {}
                 THEN {"cursor_error"} ELSE {}
    /\ insertCalled' = FALSE
    /\ faultAt' = -1
    /\ updates' = <<>>
    /\ idx' = 1
    /\ movies_to_insert' = <<>>
    /\ UNCHANGED <<cursorFile, catalog, posted, nextId, confirmed, lookedUp, persisted, dropped,
                   nIn, nOut, txn, reader, matcher>>

\* Lines 138, 153: get_updates returns.
GetUpdates ==
    /\ pc = "fetch"
    /\ pc' = "loop"
    /\ updates' = GetUpdatesResult(posted, confirmed, last_update_id)
    /\ confirmed' = ConfirmedAfter(confirmed, last_update_id)
    /\ idx' = 1
    /\ movies_to_insert' = <<>>
    /\ UNCHANGED <<cursorFile, catalog, posted, nextId, last_update_id, logged,
                   insertCalled, faultAt, lookedUp, persisted, dropped,
                   nIn, nOut, txn, reader, matcher>>

\* A mutant of ChannelError: the handler resets the cursor after it logged.
ChannelErrorResetting(e) ==
    /\ pc = "fetch"
    /\ logged' = logged \cup {e}
    /\ cursorFile' = NoFile
    /\ IF e = "retry_after"
       THEN /\ pc' = "sleep"
            /\ UNCHANGED <<last_update_id, updates, idx, movies_to_insert>>
       ELSE /\ pc' = "idle"
            /\ CycleLocalsCleared
    /\ UNCHANGED <<catalog, posted, nextId, confirmed, insertCalled, faultAt,
                   lookedUp, persisted, dropped, nIn, nOut, txn, reader, matcher>>

\* Lines 139-151: get_updates raises; the cycle logs the error and returns,
\* for RetryAfter after the wait of line 141.
ChannelError(e) ==
    /\ pc = "fetch"
    /\ logged' = logged \cup {e}
    /\ IF e = "retry_after"
       THEN /\ pc' = "sleep"
            /\ UNCHANGED <<last_update_id, updates, idx, movies_to_insert>>
       ELSE /\ pc' = "idle"
            /\ CycleLocalsCleared
    /\ UNCHANGED <<cursorFile, catalog, posted, nextId, confirmed, insertCalled,
                   faultAt, lookedUp, persisted, dropped, nIn, nOut, txn, reader, matcher>>

\* Lines 141-142: time.sleep(e.retry_after) is over and the cycle returns.
SleepEnds ==
    /\ pc = "sleep"
    /\ pc' = "idle"
    /\ CycleLocalsCleared
    /\ UNCHANGED <<cursorFile, catalog, posted, nextId, confirmed, logged, insertCalled,
                   faultAt, lookedUp, persisted, dropped, nIn, nOut, txn, reader, matcher>>

\* Lines 154-168 for one update: the cursor is saved; a file posting is staged
\* with its caption, or the cycle goes on to call OMDb (line 164).
ProcessUpdate ==
    /\ pc = "loop"
    /\ idx <= Len(updates)
    /\ LET update == updates[idx]
           details == CaptionOrPlaceholder(update)
       IN  /\ cursorFile' = CursorAfterUpdate(cursorFile, update)
           /\ persisted' = PersistedAfterUpdate(persisted, update)
           /\ IF HasDocument(update)
              THEN IF NeedsLookup(details)
                   THEN /\ pc' = "lookup"
                        /\ UNCHANGED <<idx, movies_to_insert>>
                   ELSE /\ movies_to_insert' =
                               Append(movies_to_insert, StagedEntry(update, details))
                        /\ idx' = idx + 1
                        /\ UNCHANGED pc
              ELSE /\ idx' = idx + 1
                   /\ UNCHANGED <<pc, movies_to_insert>>
    /\ UNCHANGED <<catalog, posted, nextId, confirmed, last_update_id, updates, logged,
                   insertCalled, faultAt, lookedUp, dropped, nIn, nOut, txn, reader, matcher>>

\* Lines 108-127 and 165-168: requests.get is called and ends, the entry is
\* staged.
OmdbReturns(outcome) ==
    /\ pc = "lookup"
    /\ pc' = "loop"
    /\ LET update == updates[idx]
           details == DetailsAfterLookup(CaptionOrPlaceholder(update),
                                         fetch_movie_details_from_omdb(outcome))
       IN  movies_to_insert' = Append(movies_to_insert, StagedEntry(update, details))
    /\ idx' = idx + 1
    /\ logged' = logged \cup OmdbLog(outcome)
    /\ lookedUp' = lookedUp \cup {updates[idx].update_id}
    /\ UNCHANGED <<cursorFile, catalog, posted, nextId, confirmed, last_update_id,
                   updates, insertCalled, faultAt, persisted, dropped,
                   nIn, nOut, txn, reader, matcher>>

\* Lines 108-113: requests.get is called, and an exception that is no
\* RequestException leaves
\* fetch_movie_details_from_omdb and, uncaught at line 164, the job: the cycle
\* ends there, its staged entries are lost with its locals, and the process
\* lives on (the job queue logs the exception and runs the next cycle).
OmdbRaises(escape) ==
    /\ pc = "lookup"
    /\ escape \in OmdbEscapes
    /\ pc' = "idle"
    /\ lookedUp' = lookedUp \cup {updates[idx].update_id}
    /\ CycleLocalsCleared
    /\ UNCHANGED <<cursorFile, catalog, posted, nextId, confirmed, logged, insertCalled,
                   faultAt, persisted, dropped, nIn, nOut, txn, reader, matcher>>

\* Lines 170-171: the loop is over; a staged batch is inserted, and the job
\* returns. The locals are kept as the finished cycle's until the next cycle
\* starts.
Commit(fault) ==
    /\ pc = "loop"
    /\ idx > Len(updates)
    /\ pc' = "idle"
    /\ IF movies_to_insert # <<>>
       THEN /\ fault \in Faults(movies_to_insert)
            /\ catalog' = insert_movies(catalog, movies_to_insert, fault)
            /\ insertCalled' = TRUE
            /\ logged' = IF fault = -1 THEN logged ELSE logged \cup {"db_error"}
       ELSE /\ fault = -1
            /\ UNCHANGED <<catalog, insertCalled, logged>>
    /\ UNCHANGED <<cursorFile, posted, nextId, confirmed, last_update_id, updates, idx,
                   movies_to_insert, faultAt, lookedUp, persisted, dropped,
                   nIn, nOut, txn, reader, matcher>>

\* The same step, with the record of the storage fault it met.
CommitRecorded(fault) ==
    /\ pc = "loop"
    /\ idx > Len(updates)
    /\ pc' = "idle"
    /\ IF movies_to_insert # <<>>
       THEN /\ fault \in Faults(movies_to_insert)
            /\ catalog' = insert_movies(catalog, movies_to_insert, fault)
            /\ insertCalled' = TRUE
            /\ faultAt' = fault
            /\ logged' = IF fault = -1 THEN logged ELSE logged \cup {"db_error"}
       ELSE /\ fault = -1
            /\ UNCHANGED <<catalog, insertCalled, faultAt, logged>>
    /\ UNCHANGED <<cursorFile, posted, nextId, confirmed, last_update_id, updates, idx,
                   movies_to_insert, lookedUp, persisted, dropped,
                   nIn, nOut, txn, reader, matcher>>

\* The updates with a document the running cycle has saved the cursor for
\* (lines 155-157) and not inserted: those the loop is done with, and the one a
\* lookup is being made for.
SavedUnstored ==
    LET last == IF pc = "lookup" THEN idx ELSE idx - 1
    IN  {updates[i].update_id : i \in {j \in 1..last : /\ HasDocument(updates[j])
                                                        /\ updates[j].update_id # 0}}

\* What OMDb has been asked when the process dies: at line 164 the death falls
\* before requests.get is called (line 110) or in its wait.
AskedAtDeath ==
    IF pc = "lookup"
    THEN {lookedUp, lookedUp \cup {updates[idx].update_id}}
    ELSE {lookedUp}

\* Whether insert_movies was called when the process dies: at line 170 with a
\* staged batch the death falls before the call or inside it, before the commit
\* of line 90, which leaves the table as it was.
CalledAtDeath ==
    IF pc = "loop" /\ idx > Len(updates) /\ movies_to_insert # <<>>
    THEN {insertCalled, TRUE}
    ELSE {insertCalled}

\* The process dies in lines 132-134, when the job has just been called: in
\* get_last_update_id at the latest at line 46, before the log of line 48. The
\* cycle has logged nothing and has called nothing.
DiesAtStart ==
    /\ pc = "idle"
    /\ logged' = {}
    /\ insertCalled' = FALSE
    /\ UNCHANGED <<catalog, lookedUp>>

\* The process dies between two statements of the job, in the wait of line 141
\* or in that of line 110, or inside insert_movies before its commit.
DiesBetween ==
    /\ pc \in {"fetch", "sleep", "loop", "lookup"}
    /\ lookedUp' \in AskedAtDeath
    /\ insertCalled' \in CalledAtDeath
    /\ UNCHANGED <<catalog, logged>>

\* The process dies in a handler of lines 139-151 after its log (lines 140,
\* 144, 147, 150) and before its return.
DiesAfterChannelLog ==
    /\ pc = "fetch"
    /\ \E e \in ChannelErrors : logged' = logged \cup {e}
    /\ UNCHANGED <<catalog, insertCalled, lookedUp>>

\* The process dies inside insert_movies after its last effect and before it
\* returns: after conn.commit() of line 90, with the batch stored, or after a
\* storage error and the log of line 92, with the transaction rolled back.
DiesAfterInsert(fault) ==
    /\ pc = "loop"
    /\ idx > Len(updates)
    /\ movies_to_insert # <<>>
    /\ fault \in Faults(movies_to_insert)
    /\ catalog' = insert_movies(catalog, movies_to_insert, fault)
    /\ logged' = IF fault = -1 THEN logged ELSE logged \cup {"db_error"}
    /\ insertCalled' = TRUE
    /\ UNCHANGED lookedUp

\* The process dies inside a call of the job, at any point but the inside of
\* the write of the cursor file (CrashInSave): the locals are lost, the files
\* stay as the statements before the death left them.
Crash ==
    /\ \/ DiesAtStart
       \/ DiesBetween
       \/ DiesAfterChannelLog
       \/ \E fault \in (-1)..MaxUpdates : DiesAfterInsert(fault)
    /\ pc' = "crashed"
    /\ CycleLocalsCleared
    /\ UNCHANGED <<cursorFile, posted, nextId, confirmed, faultAt, persisted, dropped,
                   nIn, nOut, txn, reader, matcher>>

\* The same step, with the record of the storage fault the insert_movies call
\* of the cycle met before the death: none when the job has just been called;
\* inside the call and before the log of line 92, any fault of the batch or
\* none yet; after the call's last effect, the fault it met.
CrashFaultRecorded ==
    /\ \/ DiesAtStart /\ faultAt' = -1
       \/ /\ DiesBetween
          /\ faultAt' \in IF insertCalled' /\ ~insertCalled
                          THEN Faults(movies_to_insert) ELSE {faultAt}
       \/ DiesAfterChannelLog /\ faultAt' = faultAt
       \/ \E fault \in (-1)..MaxUpdates : DiesAfterInsert(fault) /\ faultAt' = fault
    /\ pc' = "crashed"
    /\ CycleLocalsCleared
    /\ UNCHANGED <<cursorFile, posted, nextId, confirmed, persisted, dropped,
                   nIn, nOut, txn, reader, matcher>>

\* The same step, with the record of what it took from the cycle: the updates
\* whose cursor is saved and whose batch the death left out of the table.
CrashRecorded ==
    /\ \/ DiesAtStart /\ dropped' = dropped
       \/ DiesBetween /\ dropped' = dropped \cup SavedUnstored
       \/ DiesAfterChannelLog /\ dropped' = dropped
       \/ \E fault \in (-1)..MaxUpdates :
             /\ DiesAfterInsert(fault)
             /\ dropped' = IF fault = -1 THEN dropped ELSE dropped \cup SavedUnstored
    /\ pc' = "crashed"
    /\ CycleLocalsCleared
    /\ UNCHANGED <<cursorFile, posted, nextId, confirmed, faultAt, persisted,
                   nIn, nOut, txn, reader, matcher>>

\* The process dies inside save_last_update_id, between lines 54 and 55: the
\* cursor file is there and empty.
CrashInSave ==
    /\ pc = "loop"
    /\ idx <= Len(updates)
    /\ updates[idx].update_id # 0
    /\ pc' = "crashed"
    /\ cursorFile' = OpenedForWriting
    /\ CycleLocalsCleared
    /\ UNCHANGED <<catalog, posted, nextId, confirmed, logged, insertCalled,
                   faultAt, lookedUp, persisted, dropped, nIn, nOut, txn, reader, matcher>>

\* The same step, with the record of what it took from the cycle.
CrashInSaveRecorded ==
    /\ pc = "loop"
    /\ idx <= Len(updates)
    /\ updates[idx].update_id # 0
    /\ pc' = "crashed"
    /\ cursorFile' = OpenedForWriting
    /\ dropped' = dropped \cup SavedUnstored
    /\ CycleLocalsCleared
    /\ UNCHANGED <<catalog, posted, nextId, confirmed, logged, insertCalled,
                   faultAt, lookedUp, persisted, nIn, nOut, txn, reader, matcher>>

\* Lines 176-182, main() in a new process: DatabaseManager(DB_FILE) runs
\* init_db, which creates the table only if it is missing, and the files are as
\* the dead process left them. Line 182 names the handler start, which the
\* source does not define: main() ends there, with no job scheduled.
Restart ==
    /\ pc = "crashed"
    /\ pc' = "stopped"
    /\ UNCHANGED <<cursorFile, catalog, posted, nextId, confirmed, last_update_id,
                   updates, idx, movies_to_insert, logged, insertCalled, faultAt, lookedUp,
                   persisted, dropped, nIn, nOut, txn, reader, matcher>>

\* The caller of the job, which the source does not hold: the specification
\* has the cycle invoked periodically by an external scheduler, given the
\* stores main() has set up. From here on the job is called again and again.
Scheduled ==
    /\ pc = "stopped"
    /\ pc' = "idle"
    /\ UNCHANGED <<cursorFile, catalog, posted, nextId, confirmed, last_update_id,
                   updates, idx, movies_to_insert, logged, insertCalled, faultAt, lookedUp,
                   persisted, dropped, nIn, nOut, txn, reader, matcher>>

vars ==
    <<cursorFile, catalog, posted, nextId, confirmed, pc, last_update_id, updates, idx,
      movies_to_insert, logged, insertCalled, faultAt, lookedUp, persisted, dropped,
      nIn, nOut, txn, reader, matcher>>

\* The ids the channel may start from.
FirstIds == {0, 1}

\* The first start: main() has created the table and has ended at line 182;
\* there is no cursor file and the channel has posted nothing.
Init ==
    /\ cursorFile = NoFile
    /\ catalog = <<>>
    /\ posted = <<>>
    /\ nextId \in FirstIds
    /\ confirmed = 0
    /\ pc = "stopped"
    /\ last_update_id = {}
    /\ updates = <<>>
    /\ idx = 1
    /\ movies_to_insert = <<>>
    /\ logged = {}
    /\ insertCalled = FALSE
    /\ faultAt = -1
    /\ lookedUp = {}
    /\ persisted = {}
    /\ dropped = {}
    /\ txn = NoTxn
    /\ reader = NoReader
    /\ matcher = NoMatcher
    /\ nIn = <<>>
    /\ nOut = <<>>

Next ==
    \/ \E kind \in UpdateKinds : Post(kind)
    \/ StartCycle
    \/ GetUpdates
    \/ \E e \in ChannelErrors : ChannelError(e)
    \/ SleepEnds
    \/ ProcessUpdate
    \/ \E outcome \in OmdbOutcomes : OmdbReturns(outcome)
    \/ \E escape \in OmdbEscapes : OmdbRaises(escape)
    \/ \E fault \in (-1)..MaxUpdates : Commit(fault)
    \/ Crash
    \/ CrashInSave
    \/ Restart
    \/ Scheduled

Spec == Init /\ [][Next]_vars

----------------------------------------------------------------------------
(* The job on a channel of files whose keys collide *)

\* The updates the channel posts here: without a message, two files whose
\* captions have one key, and a file whose caption has another. No lookup is
\* made for them.
CatalogKinds ==
    {kind \in UpdateKinds :
        \/ ~kind.message
        \/ kind.document
             /\ kind.caption \in {Caption(MatrixCaption), Caption(MatrixCaption2)}}
    \cup {[message |-> TRUE, caption |-> Caption(TwoYearsCaption),
           document |-> TRUE, file_id |-> "f6"]}

CatalogNext ==
    \/ \E kind \in CatalogKinds : Post(kind)
    \/ StartCycle
    \/ GetUpdates
    \/ \E e \in ChannelErrors : ChannelError(e)
    \/ SleepEnds
    \/ ProcessUpdate
    \/ \E fault \in (-1)..MaxUpdates : Commit(fault)
    \/ Crash
    \/ CrashInSave
    \/ Restart
    \/ Scheduled

CatalogSpec == Init /\ [][CatalogNext]_vars

----------------------------------------------------------------------------
(* The job on a channel of messages without a file *)

\* The updates the channel posts here: without a message, messages without a
\* file (no caption, an empty one, a caption) and a file with a caption.
MessageKinds ==
    {kind \in UpdateKinds :
        \/ ~kind.document
        \/ kind.document /\ kind.caption = Caption(MatrixCaption)}

MessageNext ==
    \/ \E kind \in MessageKinds : Post(kind)
    \/ StartCycle
    \/ GetUpdates
    \/ \E e \in ChannelErrors : ChannelError(e)
    \/ SleepEnds
    \/ ProcessUpdate
    \/ \E fault \in (-1)..MaxUpdates : Commit(fault)
    \/ Crash
    \/ CrashInSave
    \/ Restart
    \/ Scheduled

MessageSpec == Init /\ [][MessageNext]_vars

----------------------------------------------------------------------------
(* The storage-fault check: the job with the record of the faults of its inserts *)

FaultNext ==
    \/ \E kind \in UpdateKinds : Post(kind)
    \/ StartCycle
    \/ GetUpdates
    \/ \E e \in ChannelErrors : ChannelError(e)
    \/ SleepEnds
    \/ ProcessUpdate
    \/ \E outcome \in OmdbOutcomes : OmdbReturns(outcome)
    \/ \E escape \in OmdbEscapes : OmdbRaises(escape)
    \/ \E fault \in (-1)..MaxUpdates : CommitRecorded(fault)
    \/ CrashFaultRecorded
    \/ CrashInSave
    \/ Restart
    \/ Scheduled

FaultSpec == Init /\ [][FaultNext]_vars

----------------------------------------------------------------------------
(* The crash check: the job with the record of what its crashes took *)

\* The updates the channel posts here: without a message, a message without a
\* document, a document without a caption, a document with a caption.
DropKinds ==
    {kind \in UpdateKinds :
        \/ ~kind.message
        \/ kind.message /\ ~kind.document /\ kind.caption = NoCaption
        \/ kind.document /\ kind.caption \in {NoCaption, Caption(MatrixCaption)}}

DropNext ==
    \/ \E kind \in DropKinds : Post(kind)
    \/ StartCycle
    \/ GetUpdates
    \/ \E e \in ChannelErrors : ChannelError(e)
    \/ SleepEnds
    \/ ProcessUpdate
    \/ \E outcome \in OmdbOutcomes : OmdbReturns(outcome)
    \/ \E escape \in OmdbEscapes : OmdbRaises(escape)
    \/ \E fault \in (-1)..MaxUpdates : Commit(fault)
    \/ CrashRecorded
    \/ CrashInSaveRecorded
    \/ Restart
    \/ Scheduled

DropSpec == Init /\ [][DropNext]_vars

----------------------------------------------------------------------------
(* The job in runs without a crash, a channel error or a storage error *)

CleanNext ==
    \/ \E kind \in UpdateKinds : Post(kind)
    \/ Scheduled
    \/ StartCycle
    \/ GetUpdates
    \/ ProcessUpdate
    \/ \E outcome \in OmdbOutcomes : OmdbReturns(outcome)
    \/ \E escape \in OmdbEscapes : OmdbRaises(escape)
    \/ Commit(-1)

CleanSpec == Init /\ [][CleanNext]_vars

----------------------------------------------------------------------------
(* The job on a channel of files without captions *)

\* The updates the channel posts here: two files without a caption (none, an
\* empty one).
CaptionlessKinds ==
    {[message |-> TRUE, caption |-> NoCaption, document |-> TRUE, file_id |-> "f1"],
     [message |-> TRUE, caption |-> Caption(<<>>), document |-> TRUE, file_id |-> "f5"]}

CaptionlessNext ==
    \/ \E kind \in CaptionlessKinds : Post(kind)
    \/ StartCycle
    \/ GetUpdates
    \/ ProcessUpdate
    \/ \E outcome \in OmdbOutcomes : OmdbReturns(outcome)
    \/ \E escape \in OmdbEscapes : OmdbRaises(escape)
    \/ \E fault \in (-1)..MaxUpdates : Commit(fault)
    \/ Crash
    \/ CrashInSave
    \/ Restart
    \/ Scheduled

CaptionlessSpec == Init /\ [][CaptionlessNext]_vars

----------------------------------------------------------------------------
(* The canonicalizer check: captions over a small alphabet *)

\* One letter, one digit, one whitespace character, one special character.
CaptionAlphabet == {"a", "1", " ", ","}

\* The same beyond ASCII: a letter of Latin-1, a letter beyond Latin-1, a digit
\* beyond Latin-1, a whitespace character that is no space, a numeric that is
\* no digit; with the ASCII digit and the space.
WideAlphabet == {"é", "U+0411", "U+0663", "\f", "²", "1", " "}

\* Longest caption over the wide alphabet.
MaxWideLen == MaxCaptionLen - 3

Captions ==
    UNION {[1..n -> CaptionAlphabet] : n \in 0..MaxCaptionLen}
    \cup UNION {[1..n -> WideAlphabet] : n \in 0..MaxWideLen}

NormInit ==
    /\ nIn \in Captions \cup {MatrixCaption, MatrixCaption2, Placeholder, TwoYearsCaption}
    /\ nOut = <<>>
    /\ cursorFile = NoFile
    /\ catalog = <<>>
    /\ posted = <<>>
    /\ nextId = 0
    /\ confirmed = 0
    /\ pc = "idle"
    /\ last_update_id = {}
    /\ updates = <<>>
    /\ idx = 1
    /\ movies_to_insert = <<>>
    /\ logged = {}
    /\ insertCalled = FALSE
    /\ faultAt = -1
    /\ lookedUp = {}
    /\ persisted = {}
    /\ dropped = {}
    /\ txn = NoTxn
    /\ reader = NoReader
    /\ matcher = NoMatcher

\* normalize_movie_name(x), then normalize_movie_name of its result.
Canonicalize ==
    /\ Len(nOut) < 2
    /\ nOut' = Append(nOut, normalize_movie_name(IF nOut = <<>> THEN nIn ELSE nOut[1]))
    /\ UNCHANGED <<nIn, cursorFile, catalog, posted, nextId, confirmed, pc,
                   last_update_id, updates, idx, movies_to_insert, logged, insertCalled,
                   faultAt, lookedUp, persisted, dropped, txn, reader, matcher>>

NormNext == Canonicalize

NormSpec == NormInit /\ [][NormNext]_vars

\* The steps of the job itself, once it is called. get_updates answers or
\* raises within the client's own timeouts; requests.get(url) is given no
\* timeout, so its end (OmdbReturns) is the service's step, not the job's.
JobStep ==
    \/ GetUpdates
    \/ \E e \in ChannelErrors : ChannelError(e)
    \/ SleepEnds
    \/ ProcessUpdate
    \/ \E fault \in (-1)..MaxUpdates : Commit(fault)

\* The job runs on once it is called: every step of its own that stays
\* enabled is taken. When it is called is left open.
FairSpec == Spec /\ WF_vars(JobStep)

----------------------------------------------------------------------------
(* The store check: one insert_movies call in steps, beside one get_all_movies *)

\* Entries a cycle stages: two captions of one key, two outcomes of the lookup
\* for the key of the placeholder.
StoreEntries ==
    {<<CanonicalKey(MatrixCaption), MatrixCaption, "f3">>,
     <<CanonicalKey(MatrixCaption2), MatrixCaption2, "f4">>,
     <<CanonicalKey(Placeholder), ErrorSentinel, "f1">>,
     <<CanonicalKey(Placeholder), NotAvailableSentinel, "f2">>}

\* The batches of the call.
StoreBatches == UNION {[1..n -> StoreEntries] : n \in 1..MaxBatch}

\* The table before the call: empty, or one row.
StoreTables == {<<>>} \cup {<<e>> : e \in StoreEntries}

StoreInit ==
    /\ catalog \in StoreTables
    /\ movies_to_insert \in StoreBatches
    /\ cursorFile = NoFile
    /\ posted = <<>>
    /\ nextId = 0
    /\ confirmed = 0
    /\ pc = "idle"
    /\ last_update_id = {}
    /\ updates = <<>>
    /\ idx = 1
    /\ logged = {}
    /\ insertCalled = FALSE
    /\ faultAt = -1
    /\ lookedUp = {}
    /\ persisted = {}
    /\ dropped = {}
    /\ nIn = <<>>
    /\ nOut = <<>>
    /\ txn = NoTxn
    /\ reader = NoReader
    /\ matcher = NoMatcher

\* Lines 87-88: insert_movies opens its connection; the transaction it will
\* write in starts from the committed table.
BeginInsert ==
    /\ txn.pc = "none"
    /\ txn' = [pc |-> "open", rows |-> catalog, done |-> 0, before |-> catalog]
    /\ UNCHANGED <<cursorFile, catalog, posted, nextId, confirmed, pc, last_update_id,
                   updates, idx, movies_to_insert, logged, insertCalled, faultAt,
                   lookedUp, persisted, dropped, nIn, nOut, reader, matcher>>

\* Line 89: executemany runs the INSERT OR IGNORE of the next entry, inside the
\* transaction.
ExecuteRow ==
    /\ txn.pc = "open"
    /\ txn.done < Len(movies_to_insert)
    /\ txn' = [txn EXCEPT !.rows = InsertOrIgnore(@, movies_to_insert[txn.done + 1]),
                          !.done = @ + 1]
    /\ UNCHANGED <<cursorFile, catalog, posted, nextId, confirmed, pc, last_update_id,
                   updates, idx, movies_to_insert, logged, insertCalled, faultAt,
                   lookedUp, persisted, dropped, nIn, nOut, reader, matcher>>

\* Lines 81-82: the SELECT of get_all_movies holds its shared lock until its
\* last row is fetched. execute steps to the first row, so on an empty table
\* the statement is over, and the lock released, when execute returns.
ReadLockHeld == reader.pc = "reading" /\ reader.rows # <<>>

\* Line 90: conn.commit(). The commit waits for the exclusive lock, which a
\* reader that holds its shared lock keeps it from.
CommitInsert ==
    /\ txn.pc = "open"
    /\ txn.done = Len(movies_to_insert)
    /\ ~ReadLockHeld
    /\ catalog' = txn.rows
    /\ txn' = [txn EXCEPT !.pc = "done"]
    /\ insertCalled' = TRUE
    /\ faultAt' = -1
    /\ UNCHANGED <<cursorFile, posted, nextId, confirmed, pc, last_update_id, updates,
                   idx, movies_to_insert, logged, lookedUp, persisted, dropped,
                   nIn, nOut, reader, matcher>>

\* Lines 91-92: an sqlite3.Error (the disk is full, the lock is not granted in
\* time) leaves the with block, which rolls the transaction back; the error is
\* logged and the call returns.
FailInsert ==
    /\ txn.pc = "open"
    /\ txn' = [txn EXCEPT !.pc = "done", !.rows = txn.before]
    /\ insertCalled' = TRUE
    /\ faultAt' = txn.done
    /\ logged' = logged \cup {"db_error"}
    /\ UNCHANGED <<cursorFile, catalog, posted, nextId, confirmed, pc, last_update_id,
                   updates, idx, movies_to_insert, lookedUp, persisted, dropped,
                   nIn, nOut, reader, matcher>>

\* Lines 79-81: get_all_movies, in another thread, runs its SELECT.
BeginRead ==
    /\ reader.pc = "none"
    /\ reader' = [pc |-> "reading", rows |-> get_all_movies(catalog), seen |-> catalog]
    /\ UNCHANGED <<cursorFile, catalog, posted, nextId, confirmed, pc, last_update_id,
                   updates, idx, movies_to_insert, logged, insertCalled, faultAt,
                   lookedUp, persisted, dropped, nIn, nOut, txn, matcher>>

\* Line 82: fetchall returns the rows and the connection is released.
FetchAll ==
    /\ reader.pc = "reading"
    /\ reader' = [reader EXCEPT !.pc = "done"]
    /\ UNCHANGED <<cursorFile, catalog, posted, nextId, confirmed, pc, last_update_id,
                   updates, idx, movies_to_insert, logged, insertCalled, faultAt,
                   lookedUp, persisted, dropped, nIn, nOut, txn, matcher>>

StoreNext ==
    \/ BeginInsert
    \/ ExecuteRow
    \/ CommitInsert
    \/ FailInsert
    \/ BeginRead
    \/ FetchAll

StoreSpec == StoreInit /\ [][StoreNext]_vars

----------------------------------------------------------------------------
(* The matcher check: one best_match call on a catalog snapshot *)

\* Entries the cycle can have committed: a file with a caption, a file
\* without one whose lookup succeeded, a file without one whose lookup failed.
MatchEntries ==
    {<<CanonicalKey(MatrixCaption), MatrixCaption, "f3">>,
     <<CanonicalKey(Placeholder), FormatDetails(FullData), "f1">>,
     <<CanonicalKey(Placeholder), ErrorSentinel, "f1">>}

\* The snapshots: no entry, one, or two of different keys.
MatchSnapshots ==
    {<<>>} \cup {<<e>> : e \in MatchEntries}
    \cup {<<e, f>> : <<e, f>> \in {p \in MatchEntries \X MatchEntries : p[1][1] # p[2][1]}}

\* The texts that are embedded: descriptions, keys, queries.
MatchTexts ==
    {MatrixCaption, FormatDetails(FullData), ErrorSentinel,
     CanonicalKey(MatrixCaption), CanonicalKey(Placeholder)}

MatchInit ==
    /\ catalog \in MatchSnapshots
    /\ matcher \in {[called |-> FALSE, query |-> q, floor |-> f, embed |-> e, result |-> {}] :
                        q \in MatchTexts, f \in Floors, e \in [MatchTexts -> Vectors]}
    /\ movies_to_insert = <<>>
    /\ cursorFile = NoFile
    /\ posted = <<>>
    /\ nextId = 0
    /\ confirmed = 0
    /\ pc = "idle"
    /\ last_update_id = {}
    /\ updates = <<>>
    /\ idx = 1
    /\ logged = {}
    /\ insertCalled = FALSE
    /\ faultAt = -1
    /\ lookedUp = {}
    /\ persisted = {}
    /\ dropped = {}
    /\ nIn = <<>>
    /\ nOut = <<>>
    /\ txn = NoTxn
    /\ reader = NoReader

\* best_match(query, catalog_snapshot) returns.
BestMatch ==
    /\ ~matcher.called
    /\ \E result \in best_match(matcher.query, get_all_movies(catalog), matcher.embed,
                                 matcher.floor) :
           matcher' = [matcher EXCEPT !.called = TRUE, !.result = result]
    /\ UNCHANGED <<cursorFile, catalog, posted, nextId, confirmed, pc, last_update_id,
                   updates, idx, movies_to_insert, logged, insertCalled, faultAt,
                   lookedUp, persisted, dropped, nIn, nOut, txn, reader>>

MatchNext == BestMatch

MatchSpec == MatchInit /\ [][MatchNext]_vars

----------------------------------------------------------------------------
(* Vocabulary of the properties *)

\* The integer in a one-element set.
Val(S) == CHOOSE n \in S : TRUE

\* An update that is a message with a file attached.
Attached(update) == update.message /\ update.document

\* The caption of an update is missing or empty.
CaptionAbsent(update) == ~update.caption.present \/ update.caption.text = <<>>

\* The updates of the cycle the loop is done with, those with a file only.
RECURSIVE AttachedAmong(_)
AttachedAmong(us) ==
    IF us = <<>> THEN <<>>
    ELSE IF Attached(Head(us))
         THEN <<Head(us)>> \o AttachedAmong(Tail(us))
         ELSE AttachedAmong(Tail(us))

Consumed == AttachedAmong(SubSeq(updates, 1, idx - 1))

\* The step in which insert_movies is called and comes back (a process that
\* dies inside the call takes Crash's step).
InsertStep == ~insertCalled /\ insertCalled' /\ pc' # "crashed"

\* The key the specification gives for "The Matrix, 1999!!".
MatrixKey ==
    <<"T", "h", "e", " ", "M", "a", "t", "r", "i", "x", " ", "(", "1", "9", "9", "9", ")">>

\* How many matches of \d{4} start in s.
CountYears(s) == Cardinality({i \in 1..Len(s) : YearAt(s, i)})

----------------------------------------------------------------------------
(* C1 *)

UniqueKeys ==
    \A i, j \in 1..Len(catalog) : catalog[i][1] = catalog[j][1] => i = j

RowsKept ==
    /\ Len(catalog') >= Len(catalog)
    /\ \A i \in 1..Len(catalog) : catalog'[i] = catalog[i]

NewRowsAreFirstWrites ==
    \A i \in (Len(catalog) + 1)..Len(catalog') :
        \E j \in 1..Len(movies_to_insert) :
            /\ movies_to_insert[j] = catalog'[i]
            /\ \A k \in 1..(j - 1) : movies_to_insert[k][1] # catalog'[i][1]

\* C1: the catalog never holds two rows of one canonical key; a row, once in the
\* catalog, is never changed or removed; and a row that appears is the first
\* entry of the inserted batch with its key.
C1_FirstWriteWins == []UniqueKeys /\ [][RowsKept /\ NewRowsAreFirstWrites]_vars

\* An insert_movies call has returned whose batch held an entry that collided:
\* the catalog holds its key with another description or file handle.
C1_Witness ==
    /\ pc = "idle"
    /\ insertCalled
    /\ "db_error" \notin logged
    /\ \E k \in 1..Len(movies_to_insert) :
           /\ movies_to_insert[k][1] \in Keys(catalog)
           /\ \A r \in 1..Len(catalog) : catalog[r] # movies_to_insert[k]

----------------------------------------------------------------------------
(* C2 *)

\* C2: an insert_movies call that meets no storage fault returns to the job,
\* which returns; after it every key of the batch is in the catalog and every
\* row the catalog held is as it was.
C2_MixedBatchInserted ==
    [][(InsertStep /\ "db_error" \notin logged')
         => /\ pc' = "idle"
            /\ \A k \in 1..Len(movies_to_insert) :
                   movies_to_insert[k][1] \in Keys(catalog')
            /\ \A i \in 1..Len(catalog) :
                   i <= Len(catalog') /\ catalog'[i] = catalog[i]]_vars

\* A call has returned whose batch mixed an entry that collided with a row of
\* another message and an entry that is now a row.
C2_Witness ==
    /\ pc = "idle"
    /\ insertCalled
    /\ "db_error" \notin logged
    /\ \E k \in 1..Len(movies_to_insert) :
           /\ movies_to_insert[k][1] \in Keys(catalog)
           /\ \A r \in 1..Len(catalog) :
                  catalog[r][1] = movies_to_insert[k][1]
                      => \A m \in 1..Len(movies_to_insert) : movies_to_insert[m] # catalog[r]
    /\ \E k \in 1..Len(movies_to_insert) :
           catalog[Len(catalog)] = movies_to_insert[k]

----------------------------------------------------------------------------
(* C3 *)

\* C3: normalize_movie_name(normalize_movie_name(x)) = normalize_movie_name(x).
C3_Idempotent == Len(nOut) = 2 => nOut[2] = nOut[1]

----------------------------------------------------------------------------
(* C4 *)

\* C4: for a caption with exactly one 4-digit substring the key is
\* "<body> (YYYY)" with YYYY that substring, the body holds no 4-digit run, and
\* the key holds YYYY once; "The Matrix, 1999!!" gives "The Matrix (1999)".
C4_SingleYearSuffix ==
    /\ normalize_movie_name(MatrixCaption) = MatrixKey
    /\ (Len(nOut) >= 1 /\ CountYears(nIn) = 1)
         => LET key  == nOut[1]
                at   == CHOOSE i \in 1..Len(nIn) : YearAt(nIn, i)
                year == SubSeq(nIn, at, at + 3)
                body == SubSeq(key, 1, Len(key) - 7)
            IN  /\ Len(key) >= 7
                /\ SubSeq(key, Len(key) - 6, Len(key)) = <<" ", "(">> \o year \o <<")">>
                /\ CountYears(body) = 0
                /\ CountYears(key) = 1

\* The canonicalizer has turned "The Matrix, 1999!!" into "The Matrix (1999)".
C4_Witness ==
    /\ nIn = MatrixCaption
    /\ Len(nOut) >= 1
    /\ nOut[1] = MatrixKey

----------------------------------------------------------------------------
(* C5 *)

\* C5: the steps of a cycle whose get_updates returns no update (the read of
\* the cursor, the fetch, the return) leave the cursor file and the catalog as
\* they are.
C5_EmptyCycleChangesNothing ==
    [][(\/ pc = "idle" /\ pc' = "fetch"
        \/ pc = "fetch" /\ pc' = "loop" /\ updates' = <<>>
        \/ pc = "loop" /\ updates = <<>>)
         => (cursorFile' = cursorFile /\ catalog' = catalog)]_vars

\* A cycle that read a saved cursor and got no update has returned, with a
\* catalog that holds rows.
C5_Witness ==
    /\ pc = "idle"
    /\ last_update_id # {}
    /\ updates = <<>>
    /\ ~insertCalled
    /\ logged = {}
    /\ catalog # <<>>
    /\ cursorFile.exists

----------------------------------------------------------------------------
(* C6 *)

\* C6: the cursor file, once there, stays; a value in it is never followed by
\* a smaller one or by none; a value written is at least every value written
\* before; the value a cycle reads is at least every value written before.
C6_CursorNeverDecreases ==
    [][LET before == ParseInt(cursorFile.text)
           after  == IF cursorFile' = cursorFile THEN before ELSE ParseInt(cursorFile'.text)
       IN  /\ cursorFile.exists => cursorFile'.exists
           /\ before # {}
               => (after # {} /\ Val(after) >= Val(before))
           /\ (cursorFile' # cursorFile /\ persisted # {})
               => (after # {} /\ Val(after) >= Val(persisted))
           /\ (pc = "idle" /\ pc' = "fetch" /\ persisted # {})
               => /\ last_update_id' # {}
                  /\ Val(last_update_id') >= Val(persisted)]_vars

----------------------------------------------------------------------------
(* C7 *)

\* C7: an entry staged with the error sentinel is a row of the catalog once the
\* batch is inserted without a storage fault; OMDb is not asked twice about one
\* update; a row with the error sentinel stays as it is. The two sentinels
\* differ and the failed lookup leaves the cycle in its loop.
C7_ErrorSentinelStored ==
    /\ ErrorSentinel # NotAvailableSentinel
    /\ [][/\ (InsertStep /\ "db_error" \notin logged')
              => \A k \in 1..Len(movies_to_insert) :
                     movies_to_insert[k][2] = ErrorSentinel
                         => \E r \in 1..Len(catalog') : catalog'[r] = movies_to_insert[k]
          /\ (pc = "loop" /\ pc' = "lookup")
              => updates[idx].update_id \notin lookedUp
          /\ (pc = "lookup" /\ "omdb_error" \in logged' /\ "omdb_error" \notin logged)
              => /\ pc' = "loop"
                 /\ movies_to_insert'[Len(movies_to_insert')][2] = ErrorSentinel
          /\ \A r \in 1..Len(catalog) :
                 catalog[r][2] = ErrorSentinel
                     => r <= Len(catalog') /\ catalog'[r] = catalog[r]]_vars

----------------------------------------------------------------------------
(* C8 *)

\* C8: every row and every staged entry carries the file handle of a posted
\* message with a file; the staged entries are as many as the consumed updates
\* with a file; a cycle calls insert_movies, to the end of the call or to the
\* death of the process in it, only if one of its updates has a file.
C8_NoAttachmentNoEntry ==
    /\ [](/\ \A r \in 1..Len(catalog) :
                 \E i \in 1..Len(posted) :
                     Attached(posted[i]) /\ posted[i].file_id = catalog[r][3]
          /\ \A k \in 1..Len(movies_to_insert) :
                 \E i \in 1..Len(updates) :
                     Attached(updates[i]) /\ updates[i].file_id = movies_to_insert[k][3]
          /\ pc \in {"loop", "idle"} => Len(movies_to_insert) = Len(Consumed))
    /\ [][(~insertCalled /\ insertCalled')
            => \E i \in 1..Len(updates) : Attached(updates[i])]_vars

\* A cycle has returned whose updates, one of them with a caption, all lack a
\* file: nothing was staged and insert_movies was not called.
C8_Witness ==
    /\ pc = "idle"
    /\ updates # <<>>
    /\ idx > Len(updates)
    /\ \A i \in 1..Len(updates) : ~Attached(updates[i])
    /\ \E i \in 1..Len(updates) : updates[i].message /\ ~CaptionAbsent(updates[i])
    /\ \E i \in 1..Len(updates) : updates[i].message /\ CaptionAbsent(updates[i])
    /\ movies_to_insert = <<>>
    /\ ~insertCalled

----------------------------------------------------------------------------
(* C9 *)

\* C9: OMDb is asked only about updates without a caption, and the entry staged
\* for a file with a non-empty caption has that caption as its description.
C9_CaptionIsDescription ==
    /\ pc = "lookup" => CaptionAbsent(updates[idx])
    /\ \A i \in 1..Len(posted) :
           posted[i].update_id \in lookedUp => CaptionAbsent(posted[i])
    /\ pc \in {"loop", "idle"}
         => \A k \in 1..Len(movies_to_insert) :
                (k <= Len(Consumed) /\ ~CaptionAbsent(Consumed[k]))
                    => movies_to_insert[k][2] = Consumed[k].caption.text

----------------------------------------------------------------------------
(* C10 *)

\* C10: a cycle that has started comes to its end.
C10_CycleReturns ==
    (pc \in {"fetch", "loop", "lookup"}) ~> (pc \in {"idle", "crashed"})

----------------------------------------------------------------------------
(* C11 *)

\* C11: while a cycle waits for get_updates, or for the end of the wait the
\* server asked for, the cursor it read is the one in the file; the step in
\* which get_updates raises a channel error, and the wait after a rate limit,
\* leave the cursor file and the catalog as they are; the cycle then ends in
\* its caller (the error is logged, nothing is raised); and the next cycle
\* reads its cursor from that file.
C11_ChannelErrorKeepsState ==
    /\ [](pc \in {"fetch", "sleep"} => last_update_id = get_last_update_id(cursorFile))
    /\ [][/\ pc \in {"fetch", "sleep"} => (cursorFile' = cursorFile /\ catalog' = catalog)
          /\ (pc = "fetch" /\ logged' # logged)
               => /\ pc' # "crashed"
                       => pc' = IF "retry_after" \in logged' THEN "sleep" ELSE "idle"
                  /\ logged' \ logged \subseteq ChannelErrors
                  /\ get_last_update_id(cursorFile') = last_update_id
          /\ (pc = "sleep" /\ pc' # "crashed")
               => (pc' = "idle" /\ logged' = logged)
          /\ (pc = "idle" /\ pc' = "fetch")
               => /\ cursorFile' = cursorFile
                  /\ last_update_id' = get_last_update_id(cursorFile)]_vars

\* A cycle that read a saved cursor, with rows in the catalog and an update
\* waiting in the channel, has met a rate limit, waited and returned.
C11_Witness ==
    /\ pc = "idle"
    /\ "retry_after" \in logged
    /\ cursorFile.exists
    /\ catalog # <<>>
    /\ ParseInt(cursorFile.text) # {}
    /\ \E i \in 1..Len(posted) : posted[i].update_id >= Val(ParseInt(cursorFile.text))

----------------------------------------------------------------------------
(* C12 *)

\* C12: an insert_movies call that meets a storage error part-way through its
\* batch returns to the job, which returns; the error is logged; and the catalog
\* is the one the entries before the failure point leave.
C12_PartialCommit ==
    [][(InsertStep /\ faultAt' >= 0 /\ faultAt' < Len(movies_to_insert))
         => /\ pc' = "idle"
            /\ "db_error" \in logged'
            /\ catalog' = ExecuteMany(catalog, SubSeq(movies_to_insert, 1, faultAt'))]_vars

----------------------------------------------------------------------------
(* C13 *)

\* The committed table when the insert_movies call began.
TableBefore == IF txn.pc = "none" THEN catalog ELSE txn.before

UniqueIn(rows) ==
    \A i, j \in 1..Len(rows) : rows[i][1] = rows[j][1] => i = j

\* C13: whatever the interleaving of a get_all_movies call with an
\* insert_movies call, the rows the reader gets hold no key twice; each is a
\* whole row, one the table held before the call or an entry of the batch; for
\* every entry of the batch the reader sees the table as it was before the
\* entry was written (its key absent, or on the row that held it) or as it is
\* after (its key on a whole row); the rows are a committed table, the one
\* before the call or the one after the whole batch, the latter only once the
\* call has committed; and the stepped call ends in the table of insert_movies.
C13_ReaderSeesWholeRows ==
    /\ reader.pc # "none"
         => /\ UniqueIn(reader.rows)
            /\ \A r \in 1..Len(reader.rows) :
                   \/ \E i \in 1..Len(TableBefore) : reader.rows[r] = TableBefore[i]
                   \/ \E k \in 1..Len(movies_to_insert) :
                          reader.rows[r] = movies_to_insert[k]
            /\ \A k \in 1..Len(movies_to_insert) :
                   \/ movies_to_insert[k][1] \notin Keys(reader.rows)
                   \/ \E r \in 1..Len(reader.rows) :
                          /\ reader.rows[r][1] = movies_to_insert[k][1]
                          /\ \/ \E i \in 1..Len(TableBefore) :
                                    reader.rows[r] = TableBefore[i]
                             \/ \E m \in 1..k : reader.rows[r] = movies_to_insert[m]
            /\ reader.rows = reader.seen
            /\ reader.rows \in {TableBefore, ExecuteMany(TableBefore, movies_to_insert)}
            /\ reader.rows # TableBefore => (txn.pc = "done" /\ faultAt = -1)
    /\ txn.pc = "done" => catalog = insert_movies(txn.before, movies_to_insert, faultAt)

\* A reader has its rows while the writer's transaction holds a row of the
\* batch that is not committed.
C13_Witness ==
    /\ reader.pc = "done"
    /\ txn.pc = "open"
    /\ txn.done >= 1
    /\ Len(txn.rows) > Len(catalog)
    /\ reader.rows = catalog

----------------------------------------------------------------------------
(* C14 *)

\* The entries of the snapshot whose description is the query.
IdenticalEntries == {i \in 1..Len(catalog) : catalog[i][2] = matcher.query}

\* The entries of the snapshot whose embedded text is the query.
SelfEmbedded == {i \in 1..Len(catalog) : EmbeddedText(catalog[i]) = matcher.query}

\* The similarity of entry i of the snapshot to the query.
SimilarityOf(i) == EntrySimilarity(catalog[i], matcher.query, matcher.embed)

\* C14: when the snapshot holds an entry whose description is the query,
\* best_match returns that entry, with the maximal similarity; when no entry
\* reaches the floor, it returns absent.
C14_IdenticalIsBest ==
    matcher.called
        => /\ IdenticalEntries # {}
                => \E i \in IdenticalEntries :
                       /\ matcher.result = {catalog[i]}
                       /\ SimilarityOf(i) = MaximalSimilarity
           /\ (\A i \in 1..Len(catalog) : SimilarityOf(i) < matcher.floor)
                => matcher.result = {}

\* C14, amended: when the snapshot holds an entry whose embedded text (its
\* description, or its key if the description is empty or a sentinel) is the
\* query, best_match returns an entry of the maximal similarity, which that
\* entry has, and returns that entry when no other is as close; what it returns
\* is always a closest entry at or above the floor; when no entry reaches the
\* floor, or the snapshot is empty, it returns absent.
C14_SelfEmbeddedIsBest ==
    matcher.called
        => /\ SelfEmbedded # {}
                => /\ \A i \in SelfEmbedded : SimilarityOf(i) = MaximalSimilarity
                   /\ \E r \in 1..Len(catalog) :
                          /\ matcher.result = {catalog[r]}
                          /\ SimilarityOf(r) = MaximalSimilarity
                   /\ (\A j \in 1..Len(catalog) :
                           SimilarityOf(j) = MaximalSimilarity => j \in SelfEmbedded)
                        => \E i \in SelfEmbedded : matcher.result = {catalog[i]}
           /\ matcher.result # {}
                => \E r \in 1..Len(catalog) :
                       /\ matcher.result = {catalog[r]}
                       /\ SimilarityOf(r) >= matcher.floor
                       /\ \A j \in 1..Len(catalog) : SimilarityOf(r) >= SimilarityOf(j)
           /\ (\A i \in 1..Len(catalog) : SimilarityOf(i) < matcher.floor)
                => matcher.result = {}

\* A query that is the description of one of two entries, the other of which
\* is below the floor, has got that entry.
C14_Witness ==
    /\ matcher.called
    /\ Len(catalog) = 2
    /\ \E i \in SelfEmbedded :
           /\ catalog[i][2] = matcher.query
           /\ matcher.result = {catalog[i]}
           /\ \E j \in 1..Len(catalog) : SimilarityOf(j) < matcher.floor

----------------------------------------------------------------------------
(* C15 *)

\* s without its leftmost match of \d{4}.
WithoutFirstYear(s) ==
    LET at == SearchYear(s)
    IN  SubSeq(s, 1, at - 1) \o SubSeq(s, at + 4, Len(s))

\* C15: for a caption with two or more 4-digit substrings the key is the
\* cleaned caption without its first 4-digit substring, followed by that
\* substring in parentheses: every later one stays in the body.
C15_OnlyFirstYearRemoved ==
    (Len(nOut) >= 1 /\ CountYears(nIn) >= 2)
        => LET name == Strip(CollapseSpaces(ReplaceSpecial(nIn)))
               at   == SearchYear(name)
               year == SubSeq(name, at, at + 3)
           IN  nOut[1] = Strip(WithoutFirstYear(name)) \o <<" ", "(">> \o year \o <<")">>

----------------------------------------------------------------------------
(* C16 *)

\* The update_ids of the updates the running (or last) cycle was given.
RequestedIds == {updates[i].update_id : i \in 1..Len(updates)}

\* C16: a message with a file whose cursor was saved in a cycle that crashed
\* before its insert was committed is not given to a cycle again, and the
\* cursor stays above it; rows come into the catalog only from the insert of a
\* cycle (also one the process dies in after the commit), out of the updates
\* that cycle was given, so never out of such a message; the crash that takes
\* such a message, and the restart, leave the cursor file and the catalog as
\* they are, and until its insert a cycle leaves the catalog as it found it.
C16_DroppedNeverRetried ==
    /\ [](\A d \in dropped :
              /\ cursorFile.exists
              /\ ParseInt(cursorFile.text) # {}
              /\ Val(ParseInt(cursorFile.text)) > d
              /\ d \notin RequestedIds)
    /\ [][/\ ((pc' = "crashed" /\ dropped' # dropped) \/ pc \in {"crashed", "stopped"})
               => (cursorFile' = cursorFile /\ catalog' = catalog)
          /\ catalog' # catalog
               => /\ ~insertCalled /\ insertCalled'
                  /\ RequestedIds \cap dropped = {}
                  /\ \A r \in (Len(catalog) + 1)..Len(catalog') :
                         \E i \in 1..Len(updates) :
                             /\ Attached(updates[i])
                             /\ catalog'[r][3] = updates[i].file_id
          /\ dropped \subseteq dropped']_vars

----------------------------------------------------------------------------
(* C17 *)

\* How many of its updates the running (or last) cycle has consumed: line 156
\* has run for the update a lookup is being made for.
ConsumedCount == IF pc = "lookup" THEN idx ELSE idx - 1

\* C17: once a cycle has consumed an update, with a file or without, the cursor
\* file holds a value above its id; and get_updates hands a cycle no update
\* below the cursor in the file. So no update is handed to a cycle after the
\* one that consumed it.
C17_CursorExcludesConsumed ==
    /\ [](\A i \in 1..ConsumedCount :
              /\ cursorFile.exists
              /\ ParseInt(cursorFile.text) # {}
              /\ Val(ParseInt(cursorFile.text)) > updates[i].update_id)
    /\ [][(pc = "fetch" /\ pc' = "loop" /\ ParseInt(cursorFile.text) # {})
             => \A i \in 1..Len(updates') :
                    updates'[i].update_id >= Val(ParseInt(cursorFile.text))]_vars

----------------------------------------------------------------------------
(* C18 *)

\* A caption of punctuation only: no letter, no digit or other numeric, no
\* whitespace.
PunctuationOnly(s) ==
    \A i \in 1..Len(s) : ~(IsWord(s[i]) /\ s[i] # "_") /\ ~IsSpace(s[i])

\* C18: the key starts and ends with no whitespace and holds no two whitespace
\* characters in a row; the key of an empty caption and of a caption of
\* punctuation only is the empty string.
C18_KeyIsTrimmed ==
    Len(nOut) >= 1
        => LET key == nOut[1]
           IN  /\ key # <<>> => (~IsSpace(key[1]) /\ ~IsSpace(key[Len(key)]))
               /\ \A i \in 1..(Len(key) - 1) : ~(IsSpace(key[i]) /\ IsSpace(key[i + 1]))
               /\ PunctuationOnly(nIn) => key = <<>>

----------------------------------------------------------------------------
(* C19 *)

\* The posted messages with a file that lie below the cursor in the file.
BelowCursor ==
    {i \in 1..Len(posted) :
        /\ Attached(posted[i])
        /\ cursorFile.exists
        /\ ParseInt(cursorFile.text) # {}
        /\ posted[i].update_id < Val(ParseInt(cursorFile.text))}

\* C19: in a run without a crash, a channel error or a storage error, between
\* two cycles the canonical key of every message with a file below the
\* persisted cursor is a key of the catalog.
C19_CursorNotAheadOfCatalog ==
    pc = "idle"
        => \A i \in BelowCursor :
               CanonicalKey(CaptionOrPlaceholder(posted[i])) \in Keys(catalog)

----------------------------------------------------------------------------
(* C20 *)

\* The file handles of the posted messages with a file and without a caption.
CaptionlessFiles ==
    {posted[i].file_id : i \in {j \in 1..Len(posted) :
                                   Attached(posted[j]) /\ CaptionAbsent(posted[j])}}

\* The rows of the catalog that came from such a message.
CaptionlessRows == {r \in 1..Len(catalog) : catalog[r][3] \in CaptionlessFiles}

\* C20: every message with a file and without a caption has the key of the
\* placeholder, "No details available", whatever the message; the lookup is
\* made with that key and the entry is staged under it; the catalog holds at
\* most one row that came from such a message, under that key; and an insert
\* into a catalog that holds the key adds no row for such a message.
C20_OneCaptionlessEntry ==
    /\ [](/\ normalize_movie_name(Placeholder) = Placeholder
          /\ \A i \in 1..Len(posted) :
                 (Attached(posted[i]) /\ CaptionAbsent(posted[i]))
                     => LookupKey(posted[i]) = Placeholder
          /\ pc = "lookup" => LookupKey(updates[idx]) = Placeholder
          /\ pc \in {"loop", "idle"}
               => \A k \in 1..Len(movies_to_insert) :
                      (k <= Len(Consumed) /\ CaptionAbsent(Consumed[k]))
                          => movies_to_insert[k][1] = Placeholder
          /\ Cardinality(CaptionlessRows) <= 1
          /\ \A r \in CaptionlessRows : catalog[r][1] = Placeholder)
    /\ [][(InsertStep /\ Placeholder \in Keys(catalog))
             => \A r \in (Len(catalog) + 1)..Len(catalog') :
                    catalog'[r][3] \notin CaptionlessFiles]_vars

\* The catalog holds the row of one file without a caption; a later cycle
\* staged another such file, inserted its batch without a storage error, and
\* the catalog holds no row of that file.
C20_Witness ==
    /\ pc = "idle"
    /\ insertCalled
    /\ "db_error" \notin logged
    /\ last_update_id # {}
    /\ Cardinality(CaptionlessRows) = 1
    /\ \E k \in 1..Len(movies_to_insert) :
           /\ movies_to_insert[k][3] \in CaptionlessFiles
           /\ \A r \in 1..Len(catalog) : catalog[r][3] # movies_to_insert[k][3]

====
